---- MODULE Spec2Model ----
(***************************************************************************)
(* State-machine model of the coordination-detection pipeline              *)
(* X/src/07_detect_coordination.py: the global frequency filter (pass 1),  *)
(* the time-bucket partitioner (pass 2), the per-bucket pair aggregator    *)
(* (pass 3a), the user-item accumulator (pass 3b) and the streaming        *)
(* reduction of the pair_signal table into coordination edges (pass 4).    *)
(*                                                                         *)
(* Conventions.  A Python value that may be None / "" / missing is a       *)
(* sequence of length at most one: <<>> is the falsy value, <<x>> the      *)
(* value x.  User ids are the integers 1..NUsers, ordered by <, standing   *)
(* for the strings the code orders with sorted().  The fields of a bucket  *)
(* line are tab- and blank-free tokens (hex digests, lower-cased tags and  *)
(* host names, decimal ids), so a line is kept as the triple it is written *)
(* from and split back into.                                               *)
(***************************************************************************)
EXTENDS Integers, Sequences, FiniteSets, TLC

(***************************************************************************)
(* Bounds of the model and (scaled) program constants.                     *)
(***************************************************************************)
MaxEvents == 3          \* lines of data/comments.jsonl
NUsers == 3             \* distinct author ids
MaxRuns == 2            \* starts of main() in one data directory

WINDOW_SECS == 2        \* 3600 in the source
MAX_BIP_EDGES == 11     \* 3_000_000 in the source
MIN_KINDS == 2          \* len(signals_met) >= 2
USERS_SAMPLE == 20      \* comp[:20]
MOST_COMMON == 5        \* sig_counter.most_common(5)
TOP_USERS == 10         \* sorted(comp, ...)[:10]
BATCH_SIZE == 2         \* 5000 in the source (user_item write batch)

\* MIN_OCC, MIN_ITEM_FREQ, MAX_USERS_PER_ITEM and MAX_EDGES_FOR_GRAPH are
\* configuration (2, 5, 200 and 2_000_000 in the source), and so is the
\* capacity of the top_edges heap (the literal 50 of lines 294 and 324): a run
\* is made under a lenient setting, under a strict setting, or under one whose
\* frequency threshold exceeds the size of a pair.
Configs ==
    { [min_occ |-> 1, min_item_freq |-> 2, max_users_per_item |-> 3, top_k |-> 2,
        max_edges_for_graph |-> 2],
      [min_occ |-> 2, min_item_freq |-> 2, max_users_per_item |-> 2, top_k |-> 2,
        max_edges_for_graph |-> 2],
      [min_occ |-> 1, min_item_freq |-> 3, max_users_per_item |-> 3, top_k |-> 2,
        max_edges_for_graph |-> 2] }

Users == 1..NUsers
None == <<>>
Some(x) == <<x>>

(***************************************************************************)
(* Generic helpers.                                                        *)
(***************************************************************************)
Range(s) == {s[i] : i \in 1..Len(s)}

RECURSIVE SumOver(_, _)
\* Sum of f[x] over the finite set S.
SumOver(f, S) ==
    IF S = {} THEN 0
    ELSE LET x == CHOOSE y \in S : TRUE IN f[x] + SumOver(f, S \ {x})

\* dict.get(k, 0) on a function used as a dict.
Get0(d, k) == IF k \in DOMAIN d THEN d[k] ELSE 0

\* d[k] += n on a function used as a Counter / defaultdict(int) / upsert table.
AddTo(d, k, n) ==
    [x \in DOMAIN d \cup {k} |-> IF x = k THEN Get0(d, k) + n ELSE d[x]]

EmptyMap == [x \in {} |-> 0]

RECURSIVE SortedDesc(_)
\* sorted(S, reverse=True)
SortedDesc(S) ==
    IF S = {} THEN <<>>
    ELSE LET m == CHOOSE x \in S : \A y \in S : x >= y
         IN <<m>> \o SortedDesc(S \ {m})

RECURSIVE SortedSeq(_)
\* sorted(S) for a finite set of integers.
SortedSeq(S) ==
    IF S = {} THEN <<>>
    ELSE LET m == CHOOSE x \in S : \A y \in S : x <= y
         IN <<m>> \o SortedSeq(S \ {m})

(***************************************************************************)
(* parse_ts, add_items, extract_items, to_bip_item.                        *)
(***************************************************************************)
\* A published_at value: absent (None / ""), a string fromisoformat rejects,
\* or an ISO-8601 UTC instant of `secs` epoch seconds.
parse_ts(ts) ==
    IF ts.form = "none" THEN None
    ELSE IF ts.form = "iso" THEN Some(ts.secs)
    ELSE None

RECURSIVE add_items(_, _, _)
add_items(items, signal, values) ==
    IF values = <<>> THEN items
    ELSE add_items(IF Head(values) # "" THEN Append(items, <<signal, Head(values)>>)
                   ELSE items,
                   signal, Tail(values))

\* a or b on optional values
OrElse(a, b) == IF a # None THEN a ELSE b

extract_items(r) ==
    LET i1 == add_items(<<>>, "A_URL", r.urls)
        i2 == add_items(i1, "A_DOM", r.domains)
        i3 == add_items(i2, "B_TAG", r.hashtags)
        i4 == add_items(i3, "C_MENT", r.mentions)
        i5 == IF r.retweeted_tweet_id # None
              THEN Append(i4, <<"D_RETWEET", r.retweeted_tweet_id[1]>>) ELSE i4
        i6 == IF r.quoted_tweet_id # None
              THEN Append(i5, <<"D_QUOTE", r.quoted_tweet_id[1]>>) ELSE i5
        conv_id == OrElse(r.conversation_id, r.video_id)
        i7 == IF conv_id # None THEN Append(i6, <<"E_CONV", conv_id[1]>>) ELSE i6
        i8 == IF r.in_reply_to_status_id_str # None
              THEN Append(i7, <<"E_REPLY", r.in_reply_to_status_id_str[1]>>) ELSE i7
    IN i8

to_bip_item(signal, value) ==
    IF value = "" THEN None
    ELSE IF signal = "A_DOM" THEN Some(<<"DOM:", value>>)
    ELSE IF signal = "D_RETWEET" THEN Some(<<"RT:", value>>)
    ELSE IF signal = "E_CONV" THEN Some(<<"CONV:", value>>)
    ELSE IF signal = "C_MENT" THEN Some(<<"MENT:@", value>>)
    ELSE IF signal = "B_TAG" THEN Some(<<"TAG:#", value>>)
    ELSE None

(***************************************************************************)
(* The input: the lines of data/comments.jsonl.                            *)
(***************************************************************************)
NoFields ==
    [urls |-> <<>>, domains |-> <<>>, hashtags |-> <<>>, mentions |-> <<>>,
     retweeted_tweet_id |-> None, quoted_tweet_id |-> None,
     conversation_id |-> None, video_id |-> None,
     in_reply_to_status_id_str |-> None]

\* The item-bearing fields of a record: one domain; a domain and a hashtag;
\* several values per field, one of them repeated and one empty.
OneDomain == [NoFields EXCEPT !.domains = <<"d">>]
DomainAndTag == [NoFields EXCEPT !.domains = <<"d">>, !.hashtags = <<"x">>]
OneTag == [NoFields EXCEPT !.hashtags = <<"x">>]
Rich ==
    [NoFields EXCEPT !.domains = <<"d", "e">>, !.hashtags = <<"x", "y", "x", "">>,
                     !.mentions = <<"m">>]

Iso(t) == [form |-> "iso", secs |-> t]
Secs == {1, 3}

Record(ts, user, shape) ==
    [f \in DOMAIN shape \cup {"published_at", "author_id"} |->
        IF f = "published_at" THEN ts
        ELSE IF f = "author_id" THEN user
        ELSE shape[f]]

GoodRecords ==
    {Record(Iso(t), Some(u), s) : t \in Secs, u \in Users, s \in {OneDomain, DomainAndTag}}

RichRecords == {Record(Iso(1), Some(u), Rich) : u \in {1, 2}}

\* Records the normalizer has to drop: no timestamp, an unparseable one, no author.
BadRecords ==
    { Record([form |-> "none", secs |-> 0], Some(1), DomainAndTag),
      Record([form |-> "bad", secs |-> 0], Some(2), DomainAndTag),
      Record(Iso(1), None, DomainAndTag) }

Records == GoodRecords \cup RichRecords \cup BadRecords

InputFiles == UNION {[1..n -> Records] : n \in 0..MaxEvents}

(***************************************************************************)
(* State.                                                                  *)
(***************************************************************************)
VARIABLES
    events,             \* the lines of COMMENTS_IN, parsed (json.loads)
    input_exists,       \* os.path.exists(COMMENTS_IN)
    min_occ,            \* MIN_OCC
    min_item_freq,      \* MIN_ITEM_FREQ
    max_users_per_item, \* MAX_USERS_PER_ITEM
    top_k,              \* capacity of the top_edges heap
    max_edges_for_graph, \* MAX_EDGES_FOR_GRAPH
    pc,                 \* position of main()
    idx,                \* index of the next line of the file being streamed
    item_counts,        \* Counter: item -> count (pass 1)
    kept_items,         \* set of items with count >= min_item_freq
    bucket_files,       \* TMP_DIR/bucket_<id>.tsv: id -> sequence of lines
    pair_signal,        \* table pair_signal: <<user_a, user_b, signal>> -> cnt
    user_item,          \* table user_item: <<user_id, item_id>> -> cnt
    done_buckets,       \* bucket files the pass 3a loop has visited
    bucket_counts,      \* id -> the bucket_counts dict of that loop iteration
    bucket_stats,       \* id -> BucketStats record
    batch,              \* pending user_item rows (pass 3b)
    scan,               \* rows of the ordered SELECT not yet fetched (pass 4)
    current,            \* pair under reduction, None before the first row
    sig_counts,         \* dict signal -> cnt of the current pair, in insertion order
    total_occ,          \* sum of cnt over the rows of the current pair
    out_edges,          \* rows written to OUT_EDGES
    edges_written,
    edge_seq,
    top_edges,          \* heapq array of <<score, edge_seq, row>>
    G,                  \* coordination graph: edges in insertion order
    hash_order,         \* iteration order of this process's sets of user ids
    clusters,           \* the clusters list of lines 331-349
    out_clusters,       \* OUT_CLUSTERS: None, or the rows of the file
    out_graph,          \* OUT_GRAPH: None, or the graph written
    B,                  \* bipartite graph: the user_item rows added as edges
    out_bip,            \* OUT_BIP: None, or the graph written
    out_top_clusters,   \* OUT_TOP_CLUSTERS: None, or the rows of the file
    out_top_edges,      \* OUT_TOP_EDGES: None, or the rows of the file
    out_time_windows,   \* OUT_TIME_WINDOWS: None, or the rows of the file
    run,                \* how many times main() has been started
    prev                \* input, configuration and files at the end of the last run

vars == <<events, input_exists, min_occ, min_item_freq, max_users_per_item, top_k,
          max_edges_for_graph,
          pc, idx, item_counts, kept_items, bucket_files, pair_signal, user_item,
          done_buckets, bucket_counts, bucket_stats, batch, scan, current,
          sig_counts, total_occ, out_edges, edges_written, edge_seq,
          top_edges, G, hash_order, clusters, out_clusters, out_graph, B, out_bip,
          out_top_clusters, out_top_edges, out_time_windows, run, prev>>

inputVars == <<events, input_exists, min_occ, min_item_freq, max_users_per_item,
               top_k, max_edges_for_graph, run, prev>>
reportVars == <<hash_order, clusters, out_clusters, out_graph, B, out_bip,
                out_top_clusters, out_top_edges, out_time_windows>>
pass1Vars == <<item_counts, kept_items>>
pass3Vars == <<pair_signal, done_buckets, bucket_counts, bucket_stats>>
pass4Vars == <<scan, current, sig_counts, total_occ, out_edges, edges_written,
               edge_seq, top_edges, G>>

\* the configuration constants of the module
Configured(c) ==
    /\ min_occ = c.min_occ
    /\ min_item_freq = c.min_item_freq
    /\ max_users_per_item = c.max_users_per_item
    /\ top_k = c.top_k
    /\ max_edges_for_graph = c.max_edges_for_graph

\* the first start of main() in a data directory that holds the input only
FirstRun ==
    /\ run = 1
    /\ prev = None
    /\ pc = "start"
    /\ idx = 1
    /\ item_counts = EmptyMap
    /\ kept_items = {}
    /\ bucket_files = EmptyMap
    /\ pair_signal = EmptyMap
    /\ user_item = EmptyMap
    /\ done_buckets = {}
    /\ bucket_counts = EmptyMap
    /\ bucket_stats = EmptyMap
    /\ batch = <<>>
    /\ scan = {}
    /\ current = None
    /\ sig_counts = <<>>
    /\ total_occ = 0
    /\ out_edges = <<>>
    /\ edges_written = 0
    /\ edge_seq = 0
    /\ top_edges = <<>>
    /\ G = <<>>
    /\ hash_order = <<>>
    /\ clusters = <<>>
    /\ out_clusters = None
    /\ out_graph = None
    /\ B = {}
    /\ out_bip = None
    /\ out_top_clusters = None
    /\ out_top_edges = None
    /\ out_time_windows = None

Init ==
    /\ \/ /\ input_exists = TRUE
          /\ events \in InputFiles
       \/ /\ input_exists = FALSE
          /\ events = <<>>
    /\ \E c \in Configs : Configured(c)
    /\ FirstRun

\* the temp directory removed before the input is looked for
CheckInputAfterPurge ==
    /\ pc = "start"
    /\ pc' = IF input_exists THEN "pass1" ELSE "failed"
    /\ bucket_files' = EmptyMap
    /\ pair_signal' = EmptyMap
    /\ user_item' = EmptyMap
    /\ UNCHANGED <<inputVars, reportVars, idx, pass1Vars, done_buckets, bucket_counts,
                   bucket_stats, batch, pass4Vars>>

(***************************************************************************)
(* main(), lines 91-92: the input check.                                   *)
(***************************************************************************)
CheckInput ==
    /\ pc = "start"
    /\ pc' = IF input_exists THEN "pass1" ELSE "failed"
    /\ UNCHANGED <<inputVars, reportVars, idx, pass1Vars, bucket_files, user_item, pass3Vars,
                   batch, pass4Vars>>

(***************************************************************************)
(* Pass 1, lines 94-107: global item counts and the keep-set.              *)
(***************************************************************************)
RECURSIVE CountItems(_, _)
\* for key in items: item_counts[key] += 1
CountItems(counts, items) ==
    IF items = <<>> THEN counts
    ELSE CountItems(AddTo(counts, Head(items), 1), Tail(items))

Pass1Counted(counts, r) ==
    IF parse_ts(r.published_at) = None THEN counts
    ELSE CountItems(counts, extract_items(r))

Pass1Step ==
    /\ pc = "pass1"
    /\ idx <= Len(events)
    /\ item_counts' = Pass1Counted(item_counts, events[idx])
    /\ idx' = idx + 1
    /\ UNCHANGED <<inputVars, reportVars, pc, kept_items, bucket_files, user_item, pass3Vars,
                   batch, pass4Vars>>

\* line 106: kept_items = {k for k, v in item_counts.items() if v >= MIN_ITEM_FREQ}
KeepSet(counts) == {k \in DOMAIN counts : counts[k] >= min_item_freq}

FrequencyFilter ==
    /\ pc = "pass1"
    /\ idx > Len(events)
    /\ kept_items' = KeepSet(item_counts)
    /\ pc' = "purge"
    /\ UNCHANGED <<inputVars, reportVars, idx, item_counts, bucket_files, user_item, pass3Vars,
                   batch, pass4Vars>>

(***************************************************************************)
(* Pass 2, lines 109-132: purge TMP_DIR, then bucketize the kept items.    *)
(***************************************************************************)
\* the rmtree of lines 110-111 left out
KeepTmpDir ==
    /\ pc = "purge"
    /\ pc' = "pass2"
    /\ idx' = 1
    /\ UNCHANGED <<inputVars, reportVars, pass1Vars, bucket_files, user_item,
                   pass3Vars, batch, pass4Vars>>

PurgeTmpDir ==
    /\ pc = "purge"
    /\ bucket_files' = EmptyMap
    /\ pair_signal' = EmptyMap
    /\ user_item' = EmptyMap
    /\ pc' = "pass2"
    /\ idx' = 1
    /\ UNCHANGED <<inputVars, reportVars, pass1Vars, done_buckets, bucket_counts,
                   bucket_stats, batch, pass4Vars>>

\* rounding up in place of the floor division
bucket_ceil(ts) == (ts + WINDOW_SECS - 1) \div WINDOW_SECS

\* line 123: bucket = ts // WINDOW_SECS
bucket_of(ts) == ts \div WINDOW_SECS

RECURSIVE KeptLinesAll(_, _, _)
\* the keep-set test left out: one line per entry of the item list
KeptLinesAll(items, user, kept) ==
    IF items = <<>> THEN <<>>
    ELSE <<<<Head(items)[1], Head(items)[2], user>>>>
         \o KeptLinesAll(Tail(items), user, kept)

RECURSIVE KeptLines(_, _, _)
\* the lines written for one record: one per kept entry of its item list
KeptLines(items, user, kept) ==
    IF items = <<>> THEN <<>>
    ELSE (IF Head(items) \in kept
          THEN <<<<Head(items)[1], Head(items)[2], user>>>> ELSE <<>>)
         \o KeptLines(Tail(items), user, kept)

\* open(path, "w") in place of "a": the file holds the last record's lines only
WriteToFile(files, b, lines) ==
    [x \in DOMAIN files \cup {b} |-> IF x = b THEN lines ELSE files[x]]

\* open(path, "a") creates the file; the lines are appended to it
AppendToFile(files, b, lines) ==
    [x \in DOMAIN files \cup {b} |->
        (IF x \in DOMAIN files THEN files[x] ELSE <<>>)
        \o (IF x = b THEN lines ELSE <<>>)]

Bucketized(files, r, kept) ==
    LET ts == parse_ts(r.published_at)
        user == r.author_id
        items == extract_items(r)
    IN IF ts = None THEN files
       ELSE IF user = None THEN files
       ELSE IF items = <<>> THEN files
       ELSE AppendToFile(files, bucket_of(ts[1]), KeptLines(items, user[1], kept))

Pass2Step ==
    /\ pc = "pass2"
    /\ idx <= Len(events)
    /\ bucket_files' = Bucketized(bucket_files, events[idx], kept_items)
    /\ idx' = idx + 1
    /\ UNCHANGED <<inputVars, reportVars, pc, pass1Vars, user_item, pass3Vars, batch, pass4Vars>>

(***************************************************************************)
(* Lines 134-156: a fresh coordination.db with two empty tables.           *)
(***************************************************************************)
CreateDb ==
    /\ pc = "pass2"
    /\ idx > Len(events)
    /\ pair_signal' = EmptyMap
    /\ user_item' = EmptyMap
    /\ bucket_stats' = EmptyMap
    /\ bucket_counts' = EmptyMap
    /\ done_buckets' = {}
    /\ pc' = "pass3a"
    /\ UNCHANGED <<inputVars, reportVars, idx, pass1Vars, bucket_files, batch, pass4Vars>>

(***************************************************************************)
(* Pass 3a, lines 158-218: one bucket file -> pair increments and stats.   *)
(***************************************************************************)
RECURSIVE ItemOrder(_, _)
\* keys of the item_users dict in insertion order (first line of each item)
ItemOrder(lines, seen) ==
    IF lines = <<>> THEN <<>>
    ELSE LET it == <<Head(lines)[1], Head(lines)[2]>>
         IN IF it \in seen THEN ItemOrder(Tail(lines), seen)
            ELSE <<it>> \o ItemOrder(Tail(lines), seen \cup {it})

\* item_users[(signal, value)]: the set of users of the item's lines
item_users(lines, it) ==
    {lines[i][3] : i \in {j \in 1..Len(lines) : <<lines[j][1], lines[j][2]>> = it}}

bucket_users(lines) == {lines[i][3] : i \in 1..Len(lines)}

RECURSIVE TopScan(_, _, _)
\* lines 170-181: best = [users, item], item None until some ucount > 0
TopScan(order, lines, best) ==
    IF order = <<>> THEN best
    ELSE LET ucount == Cardinality(item_users(lines, Head(order)))
         IN TopScan(Tail(order), lines,
                    IF ucount > best.users
                    THEN [users |-> ucount, item |-> Some(Head(order))]
                    ELSE best)

RECURSIVE PairLoop(_, _, _)
\* lines 189-191: the pairs (users[i], users[j]), i < j, in loop order (1-based)
PairLoop(users, i, j) ==
    IF i > Len(users) THEN <<>>
    ELSE IF j > Len(users) THEN PairLoop(users, i + 1, i + 2)
    ELSE <<<<users[i], users[j]>>>> \o PairLoop(users, i, j + 1)

\* range(i, n) in place of range(i + 1, n): every user is also paired with itself
RECURSIVE PairLoopFromI(_, _, _)
PairLoopFromI(users, i, j) ==
    IF i > Len(users) THEN <<>>
    ELSE IF j > Len(users) THEN PairLoopFromI(users, i + 1, i + 1)
    ELSE <<<<users[i], users[j]>>>> \o PairLoopFromI(users, i, j + 1)

UserPairsFromI(userset) == PairLoopFromI(SortedSeq(userset), 1, 1)

UserPairs(userset) == PairLoop(SortedSeq(userset), 1, 2)

RECURSIVE AddPairs(_, _, _)
AddPairs(counts, pairs, signal) ==
    IF pairs = <<>> THEN counts
    ELSE AddPairs(AddTo(counts, <<Head(pairs)[1], Head(pairs)[2], signal>>, 1),
                  Tail(pairs), signal)

\* the cap test left out
EligibleNoCap(userset, cap) == ~(Cardinality(userset) < 2)

\* lines 183-186: the item takes part in the pair loop
Eligible(userset, cap) ==
    /\ ~(Cardinality(userset) < 2)
    /\ ~(Cardinality(userset) > cap)

RECURSIVE PairCounts(_, _, _, _)
\* lines 182-192: the bucket_counts dict of one bucket
PairCounts(order, lines, cap, counts) ==
    IF order = <<>> THEN counts
    ELSE LET users == item_users(lines, Head(order))
         IN PairCounts(Tail(order), lines, cap,
                       IF Eligible(users, cap)
                       THEN AddPairs(counts, UserPairs(users), Head(order)[1])
                       ELSE counts)

\* ON CONFLICT ... DO UPDATE SET cnt = excluded.cnt: the last bucket's count wins
UpsertOverwrite(table, rows) ==
    [k \in DOMAIN table \cup DOMAIN rows |->
        IF k \in DOMAIN rows THEN rows[k] ELSE table[k]]

\* lines 195-199: INSERT ... ON CONFLICT DO UPDATE SET cnt = cnt + excluded.cnt
Upsert(table, rows) ==
    [k \in DOMAIN table \cup DOMAIN rows |-> Get0(table, k) + Get0(rows, k)]

RECURSIVE NumEdgesCreatedNoCap(_, _, _)
\* the pairs of every item of two or more users, the cap left out
NumEdgesCreatedNoCap(order, lines, cap) ==
    IF order = <<>> THEN 0
    ELSE LET n == Cardinality(item_users(lines, Head(order)))
         IN (IF n >= 2 THEN (n * (n - 1)) \div 2 ELSE 0)
            + NumEdgesCreatedNoCap(Tail(order), lines, cap)

RECURSIVE NumEdgesCreated(_, _, _)
\* lines 208-212
NumEdgesCreated(order, lines, cap) ==
    IF order = <<>> THEN 0
    ELSE LET n == Cardinality(item_users(lines, Head(order)))
         IN (IF n >= 2 /\ n <= cap THEN (n * (n - 1)) \div 2 ELSE 0)
            + NumEdgesCreated(Tail(order), lines, cap)

BucketStats(lines, cap) ==
    LET order == ItemOrder(lines, {})
        best == TopScan(order, lines, [users |-> 0, item |-> None])
    IN [active_users |-> Cardinality(bucket_users(lines)),
        num_coord_edges_created |-> NumEdgesCreated(order, lines, cap),
        top_signal |-> IF best.item = None THEN None ELSE Some(best.item[1][1]),
        top_item |-> best.item]

Pass3aBucket(b) ==
    /\ pc = "pass3a"
    /\ b \in DOMAIN bucket_files \ done_buckets
    /\ LET lines == bucket_files[b]
           counts == PairCounts(ItemOrder(lines, {}), lines, max_users_per_item,
                                EmptyMap)
       IN /\ bucket_counts' = [x \in DOMAIN bucket_counts \cup {b} |->
                                  IF x = b THEN counts ELSE bucket_counts[x]]
          /\ pair_signal' = Upsert(pair_signal, counts)
          /\ bucket_stats' = [x \in DOMAIN bucket_stats \cup {b} |->
                                 IF x = b THEN BucketStats(lines, max_users_per_item)
                                 ELSE bucket_stats[x]]
    /\ done_buckets' = done_buckets \cup {b}
    /\ UNCHANGED <<inputVars, reportVars, pc, idx, pass1Vars, bucket_files, user_item, batch,
                   pass4Vars>>

\* the loop over the bucket files left before every file was visited
Pass3aEndEarly ==
    /\ pc = "pass3a"
    /\ pc' = "pass3b"
    /\ idx' = 1
    /\ batch' = <<>>
    /\ UNCHANGED <<inputVars, reportVars, pass1Vars, bucket_files, user_item, pass3Vars, pass4Vars>>

Pass3aEnd ==
    /\ pc = "pass3a"
    /\ done_buckets = DOMAIN bucket_files
    /\ pc' = "pass3b"
    /\ idx' = 1
    /\ batch' = <<>>
    /\ UNCHANGED <<inputVars, reportVars, pass1Vars, bucket_files, user_item, pass3Vars, pass4Vars>>

(***************************************************************************)
(* Pass 3b, lines 220-254: user-item counts, written in batches.           *)
(***************************************************************************)
RECURSIVE UpsertRows(_, _)
\* executemany over a list of (user, item_id, 1) rows
UpsertRows(table, rows) ==
    IF rows = <<>> THEN table
    ELSE UpsertRows(AddTo(table, <<Head(rows)[1], Head(rows)[2]>>, Head(rows)[3]),
                    Tail(rows))

RECURSIVE BipItems(_, _, _, _)
\* lines 232-247 for one record: st = [batch, table]
BipItems(items, user, kept, st) ==
    IF items = <<>> THEN st
    ELSE LET it == Head(items)
             item_id == to_bip_item(it[1], it[2])
         IN IF it \notin kept \/ item_id = None
            THEN BipItems(Tail(items), user, kept, st)
            ELSE LET b == Append(st.batch, <<user, item_id[1], 1>>)
                 IN BipItems(Tail(items), user, kept,
                             IF Len(b) >= BATCH_SIZE
                             THEN [batch |-> <<>>, table |-> UpsertRows(st.table, b)]
                             ELSE [batch |-> b, table |-> st.table])

Pass3bRecord(r, kept, st) ==
    IF parse_ts(r.published_at) = None THEN st
    ELSE IF r.author_id = None THEN st
    ELSE BipItems(extract_items(r), r.author_id[1], kept, st)

Pass3bStep ==
    /\ pc = "pass3b"
    /\ idx <= Len(events)
    /\ LET st == Pass3bRecord(events[idx], kept_items,
                              [batch |-> batch, table |-> user_item])
       IN /\ batch' = st.batch
          /\ user_item' = st.table
    /\ idx' = idx + 1
    /\ UNCHANGED <<inputVars, reportVars, pc, pass1Vars, bucket_files, pass3Vars, pass4Vars>>

(***************************************************************************)
(* Lines 248-272: last batch; open OUT_EDGES; start the ordered scan.      *)
(***************************************************************************)
Pass4Open ==
    /\ pc = "pass3b"
    /\ idx > Len(events)
    /\ user_item' = UpsertRows(user_item, batch)
    /\ batch' = <<>>
    /\ G' = <<>>
    /\ edges_written' = 0
    /\ top_edges' = <<>>
    /\ edge_seq' = 0
    /\ out_edges' = <<>>
    /\ scan' = {<<k[1], k[2], k[3], pair_signal[k]>> : k \in DOMAIN pair_signal}
    /\ current' = None
    /\ sig_counts' = <<>>
    /\ total_occ' = 0
    /\ pc' = "pass4"
    /\ UNCHANGED <<inputVars, reportVars, idx, pass1Vars, bucket_files, pass3Vars>>

(***************************************************************************)
(* heapq on a list of <<score, edge_seq, row>> (positions are 0-based as   *)
(* in heapq; the sequence is 1-based).                                     *)
(***************************************************************************)
\* tuple comparison; edge_seq is unique, so the row is never compared
EntryLess(e1, e2) == e1[1] < e2[1] \/ (e1[1] = e2[1] /\ e1[2] < e2[2])

RECURSIVE SiftDownLoop(_, _, _, _)
SiftDownLoop(heap, startpos, pos, newitem) ==
    IF pos > startpos
    THEN LET parentpos == (pos - 1) \div 2
             parent == heap[parentpos + 1]
         IN IF EntryLess(newitem, parent)
            THEN SiftDownLoop([heap EXCEPT ![pos + 1] = parent], startpos,
                              parentpos, newitem)
            ELSE [heap EXCEPT ![pos + 1] = newitem]
    ELSE [heap EXCEPT ![pos + 1] = newitem]

siftdown(heap, startpos, pos) == SiftDownLoop(heap, startpos, pos, heap[pos + 1])

RECURSIVE SiftUpLoop(_, _, _)
SiftUpLoop(heap, pos, childpos) ==
    IF childpos < Len(heap)
    THEN LET rightpos == childpos + 1
             c == IF rightpos < Len(heap)
                     /\ ~EntryLess(heap[childpos + 1], heap[rightpos + 1])
                  THEN rightpos ELSE childpos
         IN SiftUpLoop([heap EXCEPT ![pos + 1] = heap[c + 1]], c, 2 * c + 1)
    ELSE [heap |-> heap, pos |-> pos]

siftup(heap, pos) ==
    LET newitem == heap[pos + 1]
        r == SiftUpLoop(heap, pos, 2 * pos + 1)
    IN siftdown([r.heap EXCEPT ![r.pos + 1] = newitem], pos, r.pos)

heappush(heap, item) == siftdown(Append(heap, item), 0, Len(heap))

\* heapq.heapreplace: the least entry leaves even if the item is less
heapreplace(heap, item) ==
    IF heap # <<>> THEN siftup([heap EXCEPT ![1] = item], 0) ELSE heap

\* the popped entry is discarded by the caller
heappushpop(heap, item) ==
    IF heap # <<>> /\ EntryLess(heap[1], item)
    THEN siftup([heap EXCEPT ![1] = item], 0)
    ELSE heap

\* lines 294-297
TopEdgesPush(heap, entry) ==
    IF Len(heap) < top_k THEN heappush(heap, entry) ELSE heappushpop(heap, entry)

(***************************************************************************)
(* Pass 4, lines 269-329: streaming reduction of pair_signal.              *)
(***************************************************************************)
\* the signal kinds in the order sorted() puts their names
SignalOrder ==
    <<"A_DOM", "A_URL", "B_TAG", "C_MENT", "D_QUOTE", "D_RETWEET", "E_CONV", "E_REPLY">>

DictKeys(d) == {d[i][1] : i \in 1..Len(d)}

DictGet0(d, k) ==
    IF k \in DictKeys(d) THEN (CHOOSE e \in Range(d) : e[1] = k)[2] ELSE 0

\* d[k] = v on an insertion-ordered dict
DictSet(d, k, v) ==
    IF k \in DictKeys(d)
    THEN [i \in 1..Len(d) |-> IF d[i][1] = k THEN <<k, v>> ELSE d[i]]
    ELSE Append(d, <<k, v>>)

\* c > MIN_OCC in place of c >= MIN_OCC
signals_met_strict(sigc, minocc) ==
    {sigc[i][1] : i \in {j \in 1..Len(sigc) : sigc[j][2] > minocc}}

\* c <= MIN_OCC in place of c >= MIN_OCC
signals_met_below(sigc, minocc) ==
    {sigc[i][1] : i \in {j \in 1..Len(sigc) : sigc[j][2] <= minocc}}

\* [s for s, c in sig_counts.items() if c >= MIN_OCC], as a set
signals_met(sigc, minocc) == {sigc[i][1] : i \in {j \in 1..Len(sigc) : sigc[j][2] >= minocc}}

SortedSignals(S) == SelectSeq(SignalOrder, LAMBDA x : x \in S)

\* lines 279-280 (and 309-310): the significance test of a pair
Significant(sigc, minocc, kinds) ==
    Cardinality(signals_met(sigc, minocc)) >= kinds

\* total_occurrences summed over the met signals only
EdgeRowMetOnly(cur, sigc, tot, minocc) ==
    [user_a |-> cur[1],
     user_b |-> cur[2],
     num_signals |-> Cardinality(signals_met(sigc, minocc)),
     total_occurrences |->
        SumOver([s \in signals_met(sigc, minocc) |-> DictGet0(sigc, s)],
                signals_met(sigc, minocc)),
     signals |-> SortedSignals(signals_met(sigc, minocc)),
     signal_counts |-> sigc]

EdgeRow(cur, sigc, tot, minocc) ==
    [user_a |-> cur[1],
     user_b |-> cur[2],
     num_signals |-> Cardinality(signals_met(sigc, minocc)),
     total_occurrences |-> tot,
     signals |-> SortedSignals(signals_met(sigc, minocc)),
     signal_counts |-> sigc]

\* the row, the counters and the heap entry only while under the ceiling
EmitUnderCeiling(cur, sigc, tot, minocc, out) ==
    IF Significant(sigc, minocc, MIN_KINDS) /\ out.edges_written < max_edges_for_graph
    THEN LET row == EdgeRow(cur, sigc, tot, minocc)
             written == out.edges_written + 1
             seq == out.edge_seq + 1
         IN [out_edges |-> Append(out.out_edges, row),
             edges_written |-> written,
             edge_seq |-> seq,
             top_edges |-> TopEdgesPush(out.top_edges, <<tot, seq, row>>),
             G |-> Append(out.G, [u |-> cur[1], v |-> cur[2], weight |-> tot,
                                  signals |-> row.signals])]
    ELSE out

\* lines 279-299 (and again 309-329): decide the pair `cur`; out = the outputs
Emit(cur, sigc, tot, minocc, out) ==
    IF Significant(sigc, minocc, MIN_KINDS)
    THEN LET row == EdgeRow(cur, sigc, tot, minocc)
             written == out.edges_written + 1
             seq == out.edge_seq + 1
         IN [out_edges |-> Append(out.out_edges, row),
             edges_written |-> written,
             edge_seq |-> seq,
             top_edges |-> TopEdgesPush(out.top_edges, <<tot, seq, row>>),
             G |-> IF written <= max_edges_for_graph
                   THEN Append(out.G, [u |-> cur[1], v |-> cur[2], weight |-> tot,
                                       signals |-> row.signals])
                   ELSE out.G]
    ELSE out

Outputs ==
    [out_edges |-> out_edges, edges_written |-> edges_written,
     edge_seq |-> edge_seq, top_edges |-> top_edges, G |-> G]

SetOutputs(out) ==
    /\ out_edges' = out.out_edges
    /\ edges_written' = out.edges_written
    /\ edge_seq' = out.edge_seq
    /\ top_edges' = out.top_edges
    /\ G' = out.G

\* ORDER BY user_a, user_b
PairLeq(r1, r2) == r1[1] < r2[1] \/ (r1[1] = r2[1] /\ r1[2] <= r2[2])

\* a scan without ORDER BY: any row may come next
UnorderedRows(rows) == rows

\* The rows the cursor may yield next: any row of a least (user_a, user_b);
\* the query leaves the order of a pair's rows to the engine.
NextRows(rows) == {r \in rows : \A r2 \in rows : PairLeq(r, r2)}

Pass4Row(row) ==
    /\ pc = "pass4"
    /\ row \in NextRows(scan)
    /\ scan' = scan \ {row}
    /\ LET key == <<row[1], row[2]>>
           cur == IF current = None THEN key ELSE current[1]
       IN IF key # cur
          THEN /\ SetOutputs(Emit(cur, sig_counts, total_occ, min_occ, Outputs))
               /\ current' = Some(key)
               /\ sig_counts' = DictSet(<<>>, row[3], row[4])
               /\ total_occ' = row[4]
          ELSE /\ UNCHANGED <<out_edges, edges_written, edge_seq, top_edges, G>>
               /\ current' = Some(cur)
               /\ sig_counts' = DictSet(sig_counts, row[3],
                                        DictGet0(sig_counts, row[3]) + row[4])
               /\ total_occ' = total_occ + row[4]
    /\ UNCHANGED <<inputVars, reportVars, pc, idx, pass1Vars, bucket_files, user_item, pass3Vars,
                   batch>>

\* lines 308-329: the last pair
Pass4Flush ==
    /\ pc = "pass4"
    /\ scan = {}
    /\ IF current # None
       THEN SetOutputs(Emit(current[1], sig_counts, total_occ, min_occ, Outputs))
       ELSE UNCHANGED <<out_edges, edges_written, edge_seq, top_edges, G>>
    /\ pc' = "clusters"
    /\ UNCHANGED <<inputVars, reportVars, idx, pass1Vars, bucket_files, user_item, pass3Vars,
                   batch, scan, current, sig_counts, total_occ>>

(***************************************************************************)
(* networkx.Graph as used by lines 331-413: G is the sequence of add_edge  *)
(* calls (a pair is added at most once), nodes and adjacency lists keep    *)
(* insertion order, connected_components yields one set per unseen node    *)
(* in node order.                                                          *)
(***************************************************************************)
RECURSIVE NodeOrder(_, _)
NodeOrder(g, seen) ==
    IF g = <<>> THEN <<>>
    ELSE LET e == Head(g)
         IN SelectSeq(<<e.u, e.v>>, LAMBDA n : n \notin seen)
            \o NodeOrder(Tail(g), seen \cup {e.u, e.v})

Nodes(g) == Range(NodeOrder(g, {}))

\* the edges at u, in the order G.neighbors(u) visits the other endpoint
Neighbors(g, u) == SelectSeq(g, LAMBDA e : e.u = u \/ e.v = u)

\* the nodes of S and their neighbours, no further
Adjacent(g, S) ==
    S \cup {e.v : e \in {x \in Range(g) : x.u \in S}}
      \cup {e.u : e \in {x \in Range(g) : x.v \in S}}

RECURSIVE Reach(_, _)
Reach(g, S) ==
    LET T == S \cup {e.v : e \in {x \in Range(g) : x.u \in S}}
               \cup {e.u : e \in {x \in Range(g) : x.v \in S}}
    IN IF T = S THEN S ELSE Reach(g, T)

RECURSIVE ComponentsFrom(_, _, _)
ComponentsFrom(g, order, seen) ==
    IF order = <<>> THEN <<>>
    ELSE IF Head(order) \in seen THEN ComponentsFrom(g, Tail(order), seen)
    ELSE LET c == Reach(g, {Head(order)})
         IN <<c>> \o ComponentsFrom(g, Tail(order), seen \cup c)

connected_components(g) == ComponentsFrom(g, NodeOrder(g, {}), {})

\* G.degree(weight="weight")
Degree(g, u) ==
    LET es == Neighbors(g, u)
    IN SumOver([i \in 1..Len(es) |-> es[i].weight], 1..Len(es))

\* The orders in which a set of user ids can be iterated: the ids are strings,
\* whose hashes differ from one interpreter process to the next.
Orders(S) == {f \in [1..Cardinality(S) -> S] : Range(f) = S}

\* list(comp) under the iteration order of this process
ListOf(comp, order) == SelectSeq(order, LAMBDA u : u \in comp)

RECURSIVE SortIdx(_, _)
\* indices of `key` by key descending, equal keys in index order
SortIdx(I, key) ==
    IF I = {} THEN <<>>
    ELSE LET m == CHOOSE i \in I :
                    \A j \in I : key[i] > key[j] \/ (key[i] = key[j] /\ i <= j)
         IN <<m>> \o SortIdx(I \ {m}, key)

\* sorted(seq, key=..., reverse=True), key[i] being the key of seq[i]: stable
SortedByKeyDesc(seq, key) ==
    LET order == SortIdx(1..Len(seq), key)
    IN [i \in 1..Len(seq) |-> seq[order[i]]]

Take(seq, n) == SubSeq(seq, 1, IF Len(seq) < n THEN Len(seq) ELSE n)

\* Counter.most_common(n) on a counter kept in insertion order
most_common(d, n) == Take(SortedByKeyDesc(d, [i \in 1..Len(d) |-> d[i][2]]), n)

(***************************************************************************)
(* Lines 331-360: clusters, OUT_CLUSTERS, OUT_GRAPH.                       *)
(***************************************************************************)
RECURSIVE CountSignals(_, _)
\* for s in sigs.split(","): if s: sig_counter[s] += 1  (the signals attribute
\* joins names that hold no comma, so the split gives the names back)
CountSignals(counter, sigs) ==
    IF sigs = <<>> THEN counter
    ELSE CountSignals(DictSet(counter, Head(sigs), DictGet0(counter, Head(sigs)) + 1),
                      Tail(sigs))

RECURSIVE CountEdges(_, _)
CountEdges(counter, es) ==
    IF es = <<>> THEN counter
    ELSE CountEdges(CountSignals(counter, Head(es).signals), Tail(es))

RECURSIVE sig_counter(_, _, _)
\* lines 335-341: for u in comp: for v in G.neighbors(u): ...
sig_counter(g, members, counter) ==
    IF members = <<>> THEN counter
    ELSE sig_counter(g, Tail(members), CountEdges(counter, Neighbors(g, Head(members))))

ClusterRow(g, id, members) ==
    [cluster_id |-> id,
     size |-> Len(members),
     users_sample |-> Take(members, USERS_SAMPLE),
     top_signals |-> most_common(sig_counter(g, members, <<>>), MOST_COMMON)]

\* lines 333-349
ClusterList(g, order) ==
    LET comps == connected_components(g)
        rows == [i \in 1..Len(comps) |-> ClusterRow(g, i - 1, ListOf(comps[i], order))]
    IN SortedByKeyDesc(rows, [i \in 1..Len(rows) |-> rows[i].size])

BuildClusters ==
    /\ pc = "clusters"
    /\ \E order \in Orders(Nodes(G)) :
          /\ hash_order' = order
          /\ IF Cardinality(Nodes(G)) > 0 /\ edges_written <= max_edges_for_graph
             THEN /\ clusters' = ClusterList(G, order)
                  /\ out_clusters' = Some(ClusterList(G, order))
                  /\ out_graph' = Some(G)
             ELSE /\ clusters' = <<>>
                  /\ out_clusters' = Some(<<>>)
                  /\ UNCHANGED out_graph
    /\ pc' = "pass5"
    /\ UNCHANGED <<inputVars, idx, pass1Vars, bucket_files, user_item, pass3Vars,
                   batch, pass4Vars, B, out_bip, out_top_clusters, out_top_edges,
                   out_time_windows>>

(***************************************************************************)
(* Pass 5, lines 362-384: the bipartite user-item graph.                   *)
(***************************************************************************)
UserItemRows == {<<k[1], k[2], user_item[k]>> : k \in DOMAIN user_item}

\* LIMIT n without the ORDER BY: any n rows
AnyRows(rows, n) == {S \in SUBSET rows : Cardinality(S) = n}

\* ORDER BY cnt DESC LIMIT n: any n rows such that no row left out has a
\* greater cnt than a row taken
TopRows(rows, n) ==
    {S \in SUBSET rows :
        /\ Cardinality(S) = n
        /\ \A r \in S : \A q \in rows \ S : r[3] >= q[3]}

BuildBipartite ==
    /\ pc = "pass5"
    /\ \E S \in (IF Cardinality(UserItemRows) > MAX_BIP_EDGES
                 THEN TopRows(UserItemRows, MAX_BIP_EDGES)
                 ELSE {UserItemRows}) :
          /\ B' = S
          /\ out_bip' = IF S # {} THEN Some(S) ELSE out_bip
    /\ pc' = "t1"
    /\ UNCHANGED <<inputVars, idx, pass1Vars, bucket_files, user_item, pass3Vars,
                   batch, pass4Vars, hash_order, clusters, out_clusters, out_graph,
                   out_top_clusters, out_top_edges, out_time_windows>>

(***************************************************************************)
(* T1, lines 386-413: the top clusters report.                             *)
(***************************************************************************)
ItemPrefixes == {"DOM:", "RT:", "CONV:", "MENT:@", "TAG:#"}

\* lines 394-399: the Counter of item weights over the members' B edges.  Its
\* most_common(10) lists every key while at most ten items occur; the order
\* of equal weights follows the row order of an unordered SELECT.
ItemWeights(b, comp) ==
    LET rows == {r \in b : r[1] \in comp /\ r[2][1] \in ItemPrefixes}
        items == {r[2] : r \in rows}
    IN [it \in items |->
           SumOver([r \in rows |-> IF r[2] = it THEN r[3] ELSE 0], rows)]

\* the signals of the row at position id of the sorted clusters list
ClusterSignalsAt(cl, id) ==
    IF id + 1 \in 1..Len(cl) THEN cl[id + 1].top_signals ELSE <<>>

\* cluster_signals.get(idx, "")
ClusterSignals(cl, id) ==
    IF \E i \in 1..Len(cl) : cl[i].cluster_id = id
    THEN (CHOOSE c \in Range(cl) : c.cluster_id = id).top_signals
    ELSE <<>>

TopClusterRow(g, b, cl, id, members) ==
    [cluster_id |-> id,
     size |-> Len(members),
     top_signals |-> ClusterSignals(cl, id),
     top_users |-> Take(SortedByKeyDesc(members,
                            [i \in 1..Len(members) |-> Degree(g, members[i])]),
                        TOP_USERS),
     top_items |-> ItemWeights(b, Range(members))]

TopClusters(g, b, cl, order) ==
    LET comps == connected_components(g)
        rows == [i \in 1..Len(comps) |->
                    TopClusterRow(g, b, cl, i - 1, ListOf(comps[i], order))]
    IN SortedByKeyDesc(rows, [i \in 1..Len(rows) |-> rows[i].size])

WriteTopClusters ==
    /\ pc = "t1"
    /\ out_top_clusters' = IF Cardinality(Nodes(G)) > 0
                           THEN Some(TopClusters(G, B, clusters, hash_order))
                           ELSE out_top_clusters
    /\ pc' = "t2"
    /\ UNCHANGED <<inputVars, idx, pass1Vars, bucket_files, user_item, pass3Vars,
                   batch, pass4Vars, hash_order, clusters, out_clusters, out_graph,
                   B, out_bip, out_top_edges, out_time_windows>>

(***************************************************************************)
(* T2, lines 415-429: the top edges report.                                *)
(***************************************************************************)
TopEdgeRow(entry) ==
    [user_a |-> entry[3].user_a,
     user_b |-> entry[3].user_b,
     signals |-> entry[3].signals,
     signal_counts |-> entry[3].signal_counts,
     total_occurrences |-> entry[3].total_occurrences]

\* sorted(top_edges, key=lambda x: x[0], reverse=True), then one row per entry
TopEdgesSorted(heap) ==
    LET sorted == SortedByKeyDesc(heap, [i \in 1..Len(heap) |-> heap[i][1]])
    IN [i \in 1..Len(sorted) |-> TopEdgeRow(sorted[i])]

WriteTopEdges ==
    /\ pc = "t2"
    /\ out_top_edges' = Some(TopEdgesSorted(top_edges))
    /\ pc' = "t3"
    /\ UNCHANGED <<inputVars, idx, pass1Vars, bucket_files, user_item, pass3Vars,
                   batch, pass4Vars, hash_order, clusters, out_clusters, out_graph,
                   B, out_bip, out_top_clusters, out_time_windows>>

(***************************************************************************)
(* T3, lines 431-448: the time window report.                              *)
(***************************************************************************)
\* datetime.fromtimestamp(ts, tz=timezone.utc).isoformat()
isoformat(ts) == Iso(ts)

TimeWindowRow(b, stats) ==
    [bucket_start |-> isoformat(b * WINDOW_SECS),
     bucket_end |-> isoformat(b * WINDOW_SECS + WINDOW_SECS),
     active_users |-> stats.active_users,
     num_coord_edges_created |-> stats.num_coord_edges_created,
     top_signal |-> stats.top_signal,
     top_item |-> stats.top_item]

TimeWindows(stats) ==
    LET ids == SortedSeq(DOMAIN stats)
    IN [i \in 1..Len(ids) |-> TimeWindowRow(ids[i], stats[ids[i]])]

WriteTimeWindows ==
    /\ pc = "t3"
    /\ out_time_windows' = Some(TimeWindows(bucket_stats))
    /\ pc' = "done"
    /\ UNCHANGED <<inputVars, idx, pass1Vars, bucket_files, user_item, pass3Vars,
                   batch, pass4Vars, hash_order, clusters, out_clusters, out_graph,
                   B, out_bip, out_top_clusters, out_top_edges>>

Next ==
    \/ CheckInput
    \/ Pass1Step
    \/ FrequencyFilter
    \/ PurgeTmpDir
    \/ Pass2Step
    \/ CreateDb
    \/ \E b \in DOMAIN bucket_files : Pass3aBucket(b)
    \/ Pass3aEnd
    \/ Pass3bStep
    \/ Pass4Open
    \/ \E row \in scan : Pass4Row(row)
    \/ Pass4Flush
    \/ BuildClusters
    \/ BuildBipartite
    \/ WriteTopClusters
    \/ WriteTopEdges
    \/ WriteTimeWindows

Spec == Init /\ [][Next]_vars

(***************************************************************************)
(* main() started again in the data directory of a finished or failed run: *)
(* a new interpreter process, whose variables are those of a first start,  *)
(* finds the files the last run left, and the input file as it is now:     *)
(* unchanged, replaced, or removed.                                        *)
(***************************************************************************)
Artifacts ==
    [edges |-> out_edges, clusters |-> out_clusters, graph |-> out_graph,
     bip |-> out_bip, top_clusters |-> out_top_clusters,
     top_edges |-> out_top_edges, time_windows |-> out_time_windows]

TmpDir == [bucket_files |-> bucket_files, pair_signal |-> pair_signal,
           user_item |-> user_item]

RerunRecords ==
    {Record(Iso(t), Some(u), DomainAndTag) : t \in Secs, u \in {1, 2}}
        \cup {Record(Iso(1), Some(3), DomainAndTag)}

LaterRecord(u, shape) == Record(Iso(3), Some(u), shape)

\* what the input file may have been replaced with
RerunInputs ==
    { <<>>,
      <<LaterRecord(3, OneDomain)>>,
      <<LaterRecord(1, DomainAndTag), LaterRecord(2, DomainAndTag)>> }

Rerun ==
    /\ pc \in {"done", "failed"}
    /\ run < MaxRuns
    /\ run' = run + 1
    /\ prev' = Some([events |-> events, input_exists |-> input_exists,
                     artifacts |-> Artifacts, tmp |-> TmpDir])
    /\ \/ /\ input_exists' = TRUE
          /\ events' \in {events} \cup RerunInputs
       \/ /\ input_exists' = FALSE
          /\ events' = <<>>
    /\ pc' = "start"
    /\ idx' = 1
    /\ item_counts' = EmptyMap
    /\ kept_items' = {}
    /\ done_buckets' = {}
    /\ bucket_counts' = EmptyMap
    /\ bucket_stats' = EmptyMap
    /\ batch' = <<>>
    /\ scan' = {}
    /\ current' = None
    /\ sig_counts' = <<>>
    /\ total_occ' = 0
    /\ edges_written' = 0
    /\ edge_seq' = 0
    /\ top_edges' = <<>>
    /\ G' = <<>>
    /\ hash_order' = <<>>
    /\ clusters' = <<>>
    /\ B' = {}
    /\ UNCHANGED <<min_occ, min_item_freq, max_users_per_item, top_k,
                   max_edges_for_graph, bucket_files,
                   pair_signal, user_item, out_edges, out_clusters, out_graph,
                   out_bip, out_top_clusters, out_top_edges, out_time_windows>>

InitRerun ==
    /\ input_exists = TRUE
    /\ events \in UNION {[1..n -> RerunRecords] : n \in 2..MaxEvents}
    /\ \E c \in Configs : Configured(c)
    /\ FirstRun

NextRerun == Next \/ Rerun

SpecRerun == InitRerun /\ [][NextRerun]_vars

(***************************************************************************)
(* A second family of inputs: four-line files in which two users post one  *)
(* domain or one hashtag per record, in either of two windows.             *)
(***************************************************************************)
TwoBucketRecords ==
    {Record(Iso(t), Some(u), s) : t \in Secs, u \in {1, 2}, s \in {OneDomain, OneTag}}

InitTwoBuckets ==
    /\ input_exists = TRUE
    /\ events \in [1..(MaxEvents + 1) -> TwoBucketRecords]
    /\ \E c \in Configs : Configured(c)
    /\ FirstRun

SpecTwoBuckets == InitTwoBuckets /\ [][Next]_vars

(***************************************************************************)
(* Inputs whose edges differ in score: one record per user, all in one     *)
(* window, with the hashtag x and one to three of the domains d, e, f.     *)
(* Two users who share a domain are an edge of score 1 + the number of     *)
(* domains they share.  The heap takes two or three entries.               *)
(***************************************************************************)
DomainLists ==
    {<<"d">>, <<"e">>, <<"f">>, <<"d", "e">>, <<"d", "f">>, <<"e", "f">>,
     <<"d", "e", "f">>}

ScoreShape(ds) == [NoFields EXCEPT !.domains = ds, !.hashtags = <<"x">>]

ScoreConfigs ==
    {[min_occ |-> 1, min_item_freq |-> 2, max_users_per_item |-> 3, top_k |-> k,
        max_edges_for_graph |-> 2] :
        k \in {2, 3}}

InitScores ==
    /\ input_exists = TRUE
    /\ \E ds \in [Users -> DomainLists] :
          events = [u \in Users |-> Record(Iso(1), Some(u), ScoreShape(ds[u]))]
    /\ \E c \in ScoreConfigs : Configured(c)
    /\ FirstRun

SpecScores == InitScores /\ [][Next]_vars

(***************************************************************************)
(* Inputs that give several clusters: one record for each of five users,   *)
(* all in one window.  Users who share a domain and a hashtag, or a        *)
(* hashtag and a mention, are an edge; the choices below give a pair next  *)
(* to a triple, a chain whose two edges differ in their kinds, two         *)
(* triangles that meet in one user (more edges than the ceiling of four),  *)
(* and domains of two users each beside a hashtag of three.                *)
(***************************************************************************)
ShapeDX == [NoFields EXCEPT !.domains = <<"d">>, !.hashtags = <<"x">>]
ShapeEY == [NoFields EXCEPT !.domains = <<"e">>, !.hashtags = <<"y">>]
ShapeDXM ==
    [NoFields EXCEPT !.domains = <<"d">>, !.hashtags = <<"x">>, !.mentions = <<"m">>]
ShapeXM == [NoFields EXCEPT !.hashtags = <<"x">>, !.mentions = <<"m">>]
ShapeDXEY == [NoFields EXCEPT !.domains = <<"d", "e">>, !.hashtags = <<"x", "y">>]
ShapeEX == [NoFields EXCEPT !.domains = <<"e">>, !.hashtags = <<"x">>]
ShapeE == [NoFields EXCEPT !.domains = <<"e">>]
ShapeZ == [NoFields EXCEPT !.hashtags = <<"z">>]

\* the shapes the record of the i-th user is taken from
ShapeChoices ==
    << {ShapeDX, ShapeEY},
       {ShapeDX, ShapeDXM},
       {ShapeEY, ShapeXM, ShapeDXEY, ShapeEX},
       {ShapeEY, ShapeE},
       {ShapeEY, ShapeZ} >>

ClusterUsers == 1..Len(ShapeChoices)

ClusterConfigs ==
    {[min_occ |-> 1, min_item_freq |-> 2, max_users_per_item |-> 3, top_k |-> 2,
      max_edges_for_graph |-> 4]}

InitClusters ==
    /\ input_exists = TRUE
    /\ \E sh \in [ClusterUsers -> UNION Range(ShapeChoices)] :
          /\ \A u \in ClusterUsers : sh[u] \in ShapeChoices[u]
          /\ events = [u \in ClusterUsers |-> Record(Iso(1), Some(u), sh[u])]
    /\ \E c \in ClusterConfigs : Configured(c)
    /\ FirstRun

SpecClusters == InitClusters /\ [][Next]_vars

(***************************************************************************)
(* Vocabulary of the properties, taken from the files and tables           *)
(* themselves.                                                             *)
(***************************************************************************)
\* the items having a line in bucket file b, and the users of an item's lines
ItemsIn(b) == {<<l[1], l[2]>> : l \in Range(bucket_files[b])}
UsersIn(b, it) == {l[3] : l \in {m \in Range(bucket_files[b]) : <<m[1], m[2]>> = it}}

\* the items of b that enter the pair loop under the current cap
WithinCap(b, it) ==
    /\ Cardinality(UsersIn(b, it)) >= 2
    /\ Cardinality(UsersIn(b, it)) <= max_users_per_item

\* the eligible items of kind s in b shared by users a and c
SharedItems(b, a, c, s) ==
    {it \in ItemsIn(b) : it[1] = s /\ WithinCap(b, it) /\ {a, c} \subseteq UsersIn(b, it)}

Aggregated == pc \in {"pass3b", "pass4", "clusters"}
Reduced == pc = "clusters"

(***************************************************************************)
(* C1.  For every aggregated bucket and every item of it whose set of      *)
(* distinct users has size k, 2 <= k <= max_users_per_item, the pair loop  *)
(* yields exactly k*(k-1)/2 increments, one for each unordered pair of     *)
(* those users, and each goes to the counter of the item's own kind: a     *)
(* bucket's count of (a, c, kind) is the number of such items of that kind *)
(* that a and c share, and the bucket's counts add up to the sum of        *)
(* k*(k-1)/2 over those items.                                             *)
(***************************************************************************)
C1_PairIncrements ==
    pc = "pass3a" => \A b \in done_buckets :
        LET elig == {it \in ItemsIn(b) : WithinCap(b, it)}
            k == [it \in elig |-> Cardinality(UsersIn(b, it))]
            local == bucket_counts[b]
        IN /\ \A it \in elig :
                LET pairs == UserPairs(UsersIn(b, it))
                IN /\ Len(pairs) = (k[it] * (k[it] - 1)) \div 2
                   /\ Range(pairs) = {<<a, c>> \in UsersIn(b, it) \X UsersIn(b, it) : a < c}
           /\ \A a \in Users, c \in Users, s \in Range(SignalOrder) :
                Get0(local, <<a, c, s>>) =
                    IF a < c THEN Cardinality(SharedItems(b, a, c, s)) ELSE 0
           /\ \A key \in DOMAIN local : local[key] >= 1
           /\ SumOver(local, DOMAIN local)
                = SumOver([it \in elig |-> (k[it] * (k[it] - 1)) \div 2], elig)

\* a bucket in which an item of three users produced its three increments
C1_Witness ==
    pc = "pass3a" /\ \E b \in done_buckets : \E it \in ItemsIn(b) :
        /\ Cardinality(UsersIn(b, it)) = 3
        /\ WithinCap(b, it)
        /\ SumOver(bucket_counts[b], DOMAIN bucket_counts[b]) >= 3

(***************************************************************************)
(* C2.  While and after the bucket files are merged, the store's count of  *)
(* every key (user_a, user_b, kind) is the sum, over the buckets merged so *)
(* far, of the bucket's local count of the key, and a merge never lowers a *)
(* count.  Consequently, when two users co-occur once on a domain in one   *)
(* bucket and once on a hashtag in another bucket and min_occ = 1, the     *)
(* reduction writes one edge for them with signals {A_DOM, B_TAG} and      *)
(* total_occurrences 2, although neither bucket alone holds two kinds.     *)
(***************************************************************************)
LocalCount(b, key) == Get0(bucket_counts[b], key)

C2_StoreIsSum ==
    pc \in {"pass3a", "pass3b", "pass4", "clusters"} =>
        /\ DOMAIN pair_signal = UNION {DOMAIN bucket_counts[b] : b \in done_buckets}
        /\ \A key \in DOMAIN pair_signal :
              pair_signal[key]
                = SumOver([b \in done_buckets |-> LocalCount(b, key)], done_buckets)

\* buckets b1 # b2 give the pair (a, c) one domain co-occurrence and one
\* hashtag co-occurrence, and nothing else
CrossBucketPair(a, c, b1, b2) ==
    /\ a < c /\ b1 # b2
    /\ done_buckets = {b1, b2}
    /\ {k \in DOMAIN bucket_counts[b1] : k[1] = a /\ k[2] = c} = {<<a, c, "A_DOM">>}
    /\ {k \in DOMAIN bucket_counts[b2] : k[1] = a /\ k[2] = c} = {<<a, c, "B_TAG">>}
    /\ bucket_counts[b1][<<a, c, "A_DOM">>] = 1
    /\ bucket_counts[b2][<<a, c, "B_TAG">>] = 1

EdgesOf(a, c) == {i \in 1..Len(out_edges) : out_edges[i].user_a = a /\ out_edges[i].user_b = c}

C2_CrossBucketEdge ==
    (Reduced /\ min_occ = 1) =>
        \A a \in Users, c \in Users, b1 \in done_buckets, b2 \in done_buckets :
            CrossBucketPair(a, c, b1, b2) =>
                /\ Cardinality(EdgesOf(a, c)) = 1
                /\ \A i \in EdgesOf(a, c) :
                      /\ out_edges[i].signals = <<"A_DOM", "B_TAG">>
                      /\ out_edges[i].total_occurrences = 2

C2_Grows ==
    pc = "pass3a" =>
        \A key \in DOMAIN pair_signal :
            key \in DOMAIN pair_signal' /\ pair_signal'[key] >= pair_signal[key]

C2_AdditiveMerge == [](C2_StoreIsSum /\ C2_CrossBucketEdge) /\ [][C2_Grows]_vars

\* the cross-bucket scenario has been reduced to its edge
C2_Witness ==
    /\ Reduced /\ min_occ = 1
    /\ \E a \in Users, c \in Users, b1 \in done_buckets, b2 \in done_buckets :
          /\ CrossBucketPair(a, c, b1, b2)
          /\ \E i \in EdgesOf(a, c) : out_edges[i].total_occurrences = 2

(***************************************************************************)
(* C3.  The reduction writes an edge for a pair (user_a, user_b) if and    *)
(* only if at least two distinct signal kinds have a store count for the   *)
(* pair that is >= min_occ; it writes at most one edge per pair, and the   *)
(* edge's signal list is exactly the kinds that reached min_occ.  In       *)
(* particular, when A, B and C post one domain in one window and only A    *)
(* and B also post one hashtag, with min_occ = 1 the only edge is (A, B),  *)
(* with signals {A_DOM, B_TAG} and total_occurrences 2.                    *)
(***************************************************************************)
Qualifying(a, c) ==
    {s \in Range(SignalOrder) : Get0(pair_signal, <<a, c, s>>) >= min_occ}

C3_EdgeIff ==
    /\ pc \in {"pass4", "clusters"} =>
          \A i \in 1..Len(out_edges) :
              LET row == out_edges[i]
              IN /\ Cardinality(Qualifying(row.user_a, row.user_b)) >= 2
                 /\ Range(row.signals) = Qualifying(row.user_a, row.user_b)
                 /\ Len(row.signals) = Cardinality(Qualifying(row.user_a, row.user_b))
                 /\ row.num_signals = Cardinality(Qualifying(row.user_a, row.user_b))
                 /\ EdgesOf(row.user_a, row.user_b) = {i}
    /\ Reduced =>
          \A a \in Users, c \in Users :
              (EdgesOf(a, c) # {}) <=> (Cardinality(Qualifying(a, c)) >= 2)

\* the file holds exactly: A and B with the domain and the hashtag, C with the
\* domain, all three inside one window
\* (the hashtag is posted twice, so it is a kept item when min_item_freq <= 2)
SharedDomainScenario(ua, ub, uc) ==
    /\ Cardinality({ua, ub, uc}) = 3
    /\ Len(events) = 3
    /\ \E t \in Secs :
          Range(events) = { Record(Iso(t), Some(ua), DomainAndTag),
                            Record(Iso(t), Some(ub), DomainAndTag),
                            Record(Iso(t), Some(uc), OneDomain) }

C3_Scenario ==
    (Reduced /\ min_occ = 1 /\ max_users_per_item >= 3 /\ min_item_freq <= 2) =>
        \A ua \in Users, ub \in Users, uc \in Users :
            (SharedDomainScenario(ua, ub, uc) /\ ua < ub) =>
                /\ Len(out_edges) = 1
                /\ out_edges[1].user_a = ua
                /\ out_edges[1].user_b = ub
                /\ out_edges[1].signals = <<"A_DOM", "B_TAG">>
                /\ out_edges[1].total_occurrences = 2

C3_EdgeSignificance == C3_EdgeIff /\ C3_Scenario

C3_Witness ==
    /\ Reduced /\ min_occ = 1 /\ min_item_freq <= 2
    /\ \E ua \in Users, ub \in Users, uc \in Users :
          /\ SharedDomainScenario(ua, ub, uc)
          /\ Len(out_edges) = 1
          /\ Cardinality(Qualifying(ua, uc)) = 1

(***************************************************************************)
(* C4.  The total_occurrences of every written edge is the sum of the      *)
(* store counts of all the signal kinds recorded for its pair, the kinds   *)
(* below min_occ included; the same number is the score of the edge's      *)
(* entry in top_edges and the weight of the edge in the graph G.           *)
(***************************************************************************)
StoreTotal(a, c) ==
    SumOver([s \in Range(SignalOrder) |-> Get0(pair_signal, <<a, c, s>>)],
            Range(SignalOrder))

C4_TotalOverAllKinds ==
    pc \in {"pass4", "clusters"} =>
        /\ \A i \in 1..Len(out_edges) :
              out_edges[i].total_occurrences
                = StoreTotal(out_edges[i].user_a, out_edges[i].user_b)
        /\ \A i \in 1..Len(top_edges) :
              /\ top_edges[i][3] \in Range(out_edges)
              /\ top_edges[i][1] = StoreTotal(top_edges[i][3].user_a, top_edges[i][3].user_b)
        /\ \A i \in 1..Len(G) :
              /\ EdgesOf(G[i].u, G[i].v) # {}
              /\ G[i].weight = StoreTotal(G[i].u, G[i].v)

\* an edge one of whose recorded kinds stayed below min_occ, in the heap and in G
C4_Witness ==
    /\ Reduced
    /\ \E i \in 1..Len(out_edges) :
          LET row == out_edges[i]
          IN /\ \E s \in Range(SignalOrder) :
                   /\ Get0(pair_signal, <<row.user_a, row.user_b, s>>) >= 1
                   /\ Get0(pair_signal, <<row.user_a, row.user_b, s>>) < min_occ
             /\ \E j \in 1..Len(top_edges) : top_edges[j][3] = row
             /\ \E j \in 1..Len(G) : G[j].u = row.user_a /\ G[j].v = row.user_b

(***************************************************************************)
(* C5.  An item whose number of distinct users in a bucket exceeds         *)
(* max_users_per_item adds nothing to the bucket's count of any pair of    *)
(* its users (the count is what the other items of the kind, within the    *)
(* cap, give), and a pair and kind shared through such items only never    *)
(* reaches the store; yet when that item has more distinct users than any  *)
(* other item of the bucket it is the bucket's top_item.                   *)
(***************************************************************************)
OverCap(b, it) == Cardinality(UsersIn(b, it)) > max_users_per_item

OthersWithinCap(b, it, a, c) ==
    {o \in ItemsIn(b) \ {it} :
        /\ o[1] = it[1]
        /\ {a, c} \subseteq UsersIn(b, o)
        /\ Cardinality(UsersIn(b, o)) <= max_users_per_item}

C5_CapSkipsItem ==
    pc = "pass3a" =>
        /\ \A b \in done_buckets : \A it \in ItemsIn(b) :
              OverCap(b, it) =>
                 /\ \A a \in UsersIn(b, it), c \in UsersIn(b, it) :
                       a < c => Get0(bucket_counts[b], <<a, c, it[1]>>)
                                   = Cardinality(OthersWithinCap(b, it, a, c))
                 /\ (\A o \in ItemsIn(b) \ {it} :
                        Cardinality(UsersIn(b, o)) < Cardinality(UsersIn(b, it)))
                    => bucket_stats[b].top_item = Some(it)
        /\ \A key \in DOMAIN pair_signal :
              \E b \in done_buckets : \E it \in ItemsIn(b) :
                  /\ it[1] = key[3]
                  /\ {key[1], key[2]} \subseteq UsersIn(b, it)
                  /\ ~OverCap(b, it)

\* a bucket whose top_item is over the cap and gave its users' pairs nothing,
\* next to an item within the cap that did produce an increment
C5_Witness ==
    /\ pc = "pass3a"
    /\ \E b \in done_buckets : \E it \in ItemsIn(b) :
          /\ OverCap(b, it)
          /\ bucket_stats[b].top_item = Some(it)
          /\ \A a \in Users, c \in Users : <<a, c, it[1]>> \notin DOMAIN bucket_counts[b]
          /\ bucket_counts[b] # EmptyMap

(***************************************************************************)
(* C6.  In every state, every key of pair_signal has user_a < user_b (no   *)
(* self-pair, never both orders of a pair); the keys already have this     *)
(* order in the bucket_counts map the aggregator hands to the store; and   *)
(* every key of a bucket comes from an item of the key's kind with at      *)
(* least two distinct users including both users of the key, so an item    *)
(* of one user creates no key however many lines that user has for it.     *)
(***************************************************************************)
LinesOf(b, it) ==
    {i \in 1..Len(bucket_files[b]) : <<bucket_files[b][i][1], bucket_files[b][i][2]>> = it}

C6_CanonicalKeys ==
    /\ \A key \in DOMAIN pair_signal : key[1] < key[2]
    /\ \A b \in DOMAIN bucket_counts : \A key \in DOMAIN bucket_counts[b] :
          /\ key[1] < key[2]
          /\ b \in DOMAIN bucket_files
          /\ \E it \in ItemsIn(b) :
                /\ it[1] = key[3]
                /\ {key[1], key[2]} \subseteq UsersIn(b, it)
                /\ Cardinality(UsersIn(b, it)) >= 2

\* a merged bucket in which one user alone has several lines for an item,
\* while another item of the bucket produced a key
C6_Witness ==
    /\ pair_signal # EmptyMap
    /\ \E b \in done_buckets : \E it \in ItemsIn(b) :
          /\ Cardinality(UsersIn(b, it)) = 1
          /\ Cardinality(LinesOf(b, it)) >= 2
          /\ bucket_counts[b] # EmptyMap

(***************************************************************************)
(* Vocabulary for the properties of passes 1, 2 and 3b.                    *)
(***************************************************************************)
HasTimestamp(r) == r.published_at.form = "iso"
HasUser(r) == Len(r.author_id) = 1
IsEvent(r) == HasTimestamp(r) /\ HasUser(r)

\* how many entries of the record's item list are the item `it`
Occurrences(r, it) ==
    Cardinality({j \in 1..Len(extract_items(r)) : extract_items(r)[j] = it})
Contains(r, it) == Occurrences(r, it) >= 1

AllItems == UNION {Range(extract_items(r)) : r \in Range(events)}
Pass1Done == pc \notin {"start", "failed", "pass1"}

(***************************************************************************)
(* C7.  After the frequency-filter pass the global count of every item     *)
(* equals the number of events that contain the item, an event counting    *)
(* once however often the item is repeated in it.  (Stated here over the   *)
(* records pass 1 does not skip, those with a parseable timestamp.)        *)
(***************************************************************************)
C7_CountOncePerEvent ==
    Pass1Done =>
        \A it \in AllItems \cup DOMAIN item_counts :
            Get0(item_counts, it)
              = Cardinality({i \in 1..Len(events) :
                                HasTimestamp(events[i]) /\ Contains(events[i], it)})

(***************************************************************************)
(* C8.  A record without a parseable timestamp or without a user           *)
(* identifier contributes to nothing: the global item counts are those of  *)
(* the remaining records alone, every bucket line and every user_item row  *)
(* stems from a record that has both.                                      *)
(***************************************************************************)
C8_NoCount ==
    Pass1Done =>
        \A it \in AllItems \cup DOMAIN item_counts :
            Get0(item_counts, it)
              = SumOver([i \in 1..Len(events) |->
                            IF IsEvent(events[i]) THEN Occurrences(events[i], it) ELSE 0],
                        1..Len(events))

C8_NoLine ==
    \A b \in DOMAIN bucket_files : \A l \in Range(bucket_files[b]) :
        \E i \in 1..Len(events) :
            /\ IsEvent(events[i])
            /\ events[i].author_id = Some(l[3])
            /\ Contains(events[i], <<l[1], l[2]>>)

C8_NoUserItem ==
    \A key \in DOMAIN user_item \cup {<<row[1], row[2]>> : row \in Range(batch)} :
        \E i \in 1..Len(events) :
            /\ IsEvent(events[i])
            /\ events[i].author_id = Some(key[1])
            /\ \E it \in Range(extract_items(events[i])) :
                  to_bip_item(it[1], it[2]) = Some(key[2])

C8_DroppedRecordsContributeNothing == C8_NoCount /\ C8_NoLine /\ C8_NoUserItem

(***************************************************************************)
(* Vocabulary for the bucket an event falls into, stated with the window   *)
(* interval [b * WINDOW_SECS, (b + 1) * WINDOW_SECS) and not with the      *)
(* division the code performs.                                             *)
(***************************************************************************)
TsOf(r) == parse_ts(r.published_at)[1]

InBucket(r, b) ==
    /\ IsEvent(r)
    /\ b * WINDOW_SECS <= TsOf(r)
    /\ TsOf(r) < (b + 1) * WINDOW_SECS

LastSec == CHOOSE s \in Secs : \A t \in Secs : t <= s
CandidateBuckets == (0..LastSec) \cup DOMAIN bucket_files

\* the users with an event in window b that contains the item
EventUsers(b, it) ==
    {u \in Users : \E i \in 1..Len(events) :
        /\ InBucket(events[i], b)
        /\ events[i].author_id = Some(u)
        /\ Contains(events[i], it)}

(***************************************************************************)
(* C9.  The keep-set is exactly the set of items whose global count is at  *)
(* least min_item_freq; every line of every bucket file carries a kept     *)
(* item; the count of a pair_signal key never exceeds the number of        *)
(* (window, kept item of the key's kind) in which both users have an       *)
(* event with the item; and the count of a user_item key, rows waiting in  *)
(* the batch included, never exceeds the user's occurrences of kept items  *)
(* that map to the key's item id.                                          *)
(***************************************************************************)
C9_KeepSetExact ==
    Pass1Done =>
        /\ \A it \in kept_items : Get0(item_counts, it) >= min_item_freq
        /\ \A it \in AllItems \cup DOMAIN item_counts :
              Get0(item_counts, it) >= min_item_freq => it \in kept_items

\* the report steps after pass 4 leave bucket files and tables as they are
Filtering == pc \in {"start", "failed", "pass1", "purge", "pass2", "pass3a", "pass3b",
                     "pass4", "clusters"}

C9_NoLine ==
    \A b \in DOMAIN bucket_files : \A l \in Range(bucket_files[b]) :
        <<l[1], l[2]>> \in kept_items

C9_NoPair ==
    Filtering => \A key \in DOMAIN pair_signal :
        pair_signal[key]
          <= Cardinality({x \in CandidateBuckets \X kept_items :
                            /\ x[2][1] = key[3]
                            /\ {key[1], key[2]} \subseteq EventUsers(x[1], x[2])})

KeptOccurrences(u, item_id) ==
    LET S == {it \in kept_items : to_bip_item(it[1], it[2]) = Some(item_id)}
    IN SumOver([i \in 1..Len(events) |->
                   IF IsEvent(events[i]) /\ events[i].author_id = Some(u)
                   THEN SumOver([it \in S |-> Occurrences(events[i], it)], S)
                   ELSE 0],
               1..Len(events))

Pending(key) ==
    Cardinality({j \in 1..Len(batch) : <<batch[j][1], batch[j][2]>> = key})

C9_NoUserItem ==
    /\ Filtering =>
          \A key \in DOMAIN user_item \cup {<<row[1], row[2]>> : row \in Range(batch)} :
              Get0(user_item, key) + Pending(key) <= KeptOccurrences(key[1], key[2])
    /\ pc \in {"pass4", "clusters"} =>
          \A key \in DOMAIN user_item :
              user_item[key] = KeptOccurrences(key[1], key[2])

C9_KeepSetFilters ==
    C9_KeepSetExact /\ C9_NoLine /\ C9_NoPair /\ C9_NoUserItem

\* two users share, inside one window, an item that stayed below the threshold,
\* while a kept item gave them a pair_signal row, bucket lines and user_item rows
C9_Witness ==
    /\ pc = "pass4"
    /\ pair_signal # EmptyMap
    /\ user_item # EmptyMap
    /\ \E it \in DOMAIN item_counts \ kept_items :
          \E b \in DOMAIN bucket_files :
              Cardinality(EventUsers(b, it)) >= 2

(***************************************************************************)
(* C10.  For every window b, every item and every user, the lines          *)
(* (kind, value, user) of bucket file b are as many as the occurrences of  *)
(* the item, if kept, in the events of that user read so far whose         *)
(* timestamp lies in [b * WINDOW_SECS, (b + 1) * WINDOW_SECS); a file that *)
(* does not exist counts as empty.  So each event's lines go to the file   *)
(* floor(ts / WINDOW_SECS) and to no other, and every event with a         *)
(* timestamp and a user lies in exactly one window.  (An item repeated in  *)
(* an event's lists gives as many lines; the set of users per item that    *)
(* pass 3a builds is the same.)                                            *)
(***************************************************************************)
Visited == IF pc = "pass2" THEN 1..(idx - 1) ELSE 1..Len(events)

LineCount(b, l) ==
    IF b \in DOMAIN bucket_files
    THEN Cardinality({j \in 1..Len(bucket_files[b]) : bucket_files[b][j] = l})
    ELSE 0

ExpectedLines(b, it, u) ==
    SumOver([i \in Visited |->
                IF /\ InBucket(events[i], b)
                   /\ events[i].author_id = Some(u)
                   /\ it \in kept_items
                THEN Occurrences(events[i], it) ELSE 0],
            Visited)

AllLines == UNION {Range(bucket_files[b]) : b \in DOMAIN bucket_files}

C10_LinesInOwnBucket ==
    pc \in {"pass2", "pass3a", "pass3b", "pass4", "clusters"} =>
        \A b \in CandidateBuckets :
            \A l \in AllLines \cup {<<it[1], it[2], u>> : it \in AllItems, u \in Users} :
                LineCount(b, l) = ExpectedLines(b, <<l[1], l[2]>>, l[3])

C10_ExactlyOneBucket ==
    \A i \in 1..Len(events) :
        IsEvent(events[i]) =>
            Cardinality({b \in CandidateBuckets : InBucket(events[i], b)}) = 1

C10_Partition == C10_LinesInOwnBucket /\ C10_ExactlyOneBucket

\* after pass 2: the events of one user went to two different bucket files
C10_Witness ==
    /\ pc = "pass3a"
    /\ \E b1 \in DOMAIN bucket_files, b2 \in DOMAIN bucket_files, u \in Users :
          /\ b1 < b2
          /\ \E l \in Range(bucket_files[b1]) : l[3] = u
          /\ \E l \in Range(bucket_files[b2]) : l[3] = u

(***************************************************************************)
(* What the input determines, written with sets and sums over the lines    *)
(* of the file, so that no order of lines or of bucket files enters.       *)
(***************************************************************************)
CountOf(it) ==
    SumOver([i \in 1..Len(events) |->
                IF HasTimestamp(events[i]) THEN Occurrences(events[i], it) ELSE 0],
            1..Len(events))

KeptOf == {it \in AllItems : CountOf(it) >= min_item_freq}

\* the (window, kept item) co-occurrences that give the pair (a, c) an
\* increment of kind s, over the windows Bs
Increments(Bs, kept, a, c, s) ==
    {x \in Bs \X {it \in kept : it[1] = s} :
        /\ {a, c} \subseteq EventUsers(x[1], x[2])
        /\ Cardinality(EventUsers(x[1], x[2])) <= max_users_per_item}

KindsOf(kept) == {it[1] : it \in kept}

PairKeys(kept) == {k \in Users \X Users \X KindsOf(kept) : k[1] < k[2]}

\* the edges of the input: <<user_a, user_b, signals, total_occurrences>>
EdgesOfInput ==
    LET kept == KeptOf
        store == [k \in PairKeys(kept) |->
                     Cardinality(Increments(CandidateBuckets, kept, k[1], k[2], k[3]))]
        met(a, c) == {s \in KindsOf(kept) : store[<<a, c, s>>] >= min_occ}
        total(a, c) == SumOver([s \in KindsOf(kept) |-> store[<<a, c, s>>]], KindsOf(kept))
    IN {<<p[1], p[2], SortedSignals(met(p[1], p[2])), total(p[1], p[2])>> :
           p \in {q \in Users \X Users :
                     q[1] < q[2] /\ Cardinality(met(q[1], q[2])) >= 2}}

(***************************************************************************)
(* C11.  The store and the edges are determined by the set of events: in   *)
(* whatever order the lines of the input are read and the bucket files are *)
(* merged, the count of every key after the merge of a set of buckets is   *)
(* the number of increments those windows hold for it, and the edges       *)
(* written, with their signal lists and totals, are those of the input.    *)
(* Every line of the input is visited exactly once in each of the passes   *)
(* 1, 2 and 3b: a pass moves from one line to the next and ends only       *)
(* behind the last.                                                        *)
(***************************************************************************)
C11_StoreOfInput ==
    pc \in {"pass3a", "pass3b", "pass4", "clusters"} =>
        LET kept == KeptOf
        IN \A k \in PairKeys(kept) \cup DOMAIN pair_signal :
              Get0(pair_signal, k)
                = Cardinality(Increments(done_buckets, kept, k[1], k[2], k[3]))

C11_EdgesOfInput ==
    Reduced =>
        LET edges == EdgesOfInput
        IN /\ {<<r.user_a, r.user_b, r.signals, r.total_occurrences>> :
                  r \in Range(out_edges)} = edges
           /\ Len(out_edges) = Cardinality(edges)

C11_OncePerPass ==
    pc \in {"pass1", "pass2", "pass3b"} =>
        /\ idx \in 1..(Len(events) + 1)
        /\ (pc' = pc /\ idx' # idx) => (idx <= Len(events) /\ idx' = idx + 1)
        /\ pc' # pc => idx = Len(events) + 1

C11_OrderIndependent ==
    [](C11_StoreOfInput /\ C11_EdgesOfInput) /\ [][C11_OncePerPass]_vars

\* an edge was written although the lines of the input are not in time order
\* and its two windows were merged
C11_Witness ==
    /\ Reduced
    /\ Len(out_edges) >= 1
    /\ Cardinality(done_buckets) = 2
    /\ \E i \in 1..Len(events), j \in 1..Len(events) :
          /\ i < j
          /\ IsEvent(events[i]) /\ IsEvent(events[j])
          /\ TsOf(events[i]) > TsOf(events[j])

(***************************************************************************)
(* C12.  A second run on the same input under the same configuration       *)
(* leaves every output file as the first run left it: same rows, same row  *)
(* order, same field contents.                                             *)
(***************************************************************************)
SecondRunDone == run = 2 /\ pc = "done" /\ prev # None

SameInputAgain ==
    /\ SecondRunDone
    /\ prev[1].input_exists
    /\ prev[1].events = events

C12_Idempotent ==
    SameInputAgain => Artifacts = prev[1].artifacts

(***************************************************************************)
(* C13.  The store does not depend on the thresholds of the significance   *)
(* test, so the edges of the same input under other thresholds are the     *)
(* pairs that pass the test on the same store.  The pairs written are      *)
(* those that pass it under (min_occ, MIN_KINDS), and under any thresholds *)
(* (m, k) <= (m2, k2) the pairs that pass under (m2, k2) are among those   *)
(* that pass under (m, k).                                                 *)
(***************************************************************************)
\* the sig_counts dict the scan builds for the pair (a, c)
PairDict(a, c) ==
    LET ss == SortedSignals({x \in Range(SignalOrder) : <<a, c, x>> \in DOMAIN pair_signal})
    IN [i \in 1..Len(ss) |-> <<ss[i], pair_signal[<<a, c, ss[i]>>]>>]

EmittedPairs(m, k) ==
    {p \in Users \X Users : p[1] < p[2] /\ Significant(PairDict(p[1], p[2]), m, k)}

Thresholds == 1..(MaxEvents + 1)
KindThresholds == MIN_KINDS..(MIN_KINDS + 1)

C13_Monotone ==
    Reduced =>
        /\ {<<r.user_a, r.user_b>> : r \in Range(out_edges)}
              = EmittedPairs(min_occ, MIN_KINDS)
        /\ \A m \in Thresholds, m2 \in Thresholds :
           \A k \in KindThresholds, k2 \in KindThresholds :
              (m <= m2 /\ k <= k2) => EmittedPairs(m2, k2) \subseteq EmittedPairs(m, k)

\* a run with several edges of which a higher occurrence threshold keeps some
\* and drops others, and of which a higher kinds threshold keeps some
C13_Witness ==
    /\ Reduced
    /\ Len(out_edges) >= 2
    /\ EmittedPairs(min_occ + 1, MIN_KINDS) # {}
    /\ EmittedPairs(min_occ + 1, MIN_KINDS) # EmittedPairs(min_occ, MIN_KINDS)
    /\ EmittedPairs(min_occ, MIN_KINDS + 1) # {}
    /\ EmittedPairs(min_occ, MIN_KINDS + 1) # EmittedPairs(min_occ, MIN_KINDS)

(***************************************************************************)
(* C14.  In a run started in the data directory of an earlier run, the     *)
(* bucket files and the store of the earlier run are gone before the new   *)
(* run writes its first bucket line or store row: when pass 2 starts no    *)
(* bucket file and no store row exists, and from then on the bucket files  *)
(* hold the lines of the new run's events only, pair_signal the increments *)
(* of the new run's merged buckets only, and user_item the occurrences of  *)
(* the new run's kept items only.                                          *)
(***************************************************************************)
LaterRun == run >= 2

C14_PurgedFirst ==
    (LaterRun /\ pc = "pass2") =>
        /\ idx = 1 => bucket_files = EmptyMap
        /\ pair_signal = EmptyMap
        /\ user_item = EmptyMap

C14_OnlyNewLines ==
    (LaterRun /\ pc \in {"pass2", "pass3a", "pass3b", "pass4", "clusters", "done"}) =>
        \A b \in CandidateBuckets :
            \A l \in AllLines \cup {<<it[1], it[2], u>> : it \in AllItems, u \in Users} :
                LineCount(b, l) = ExpectedLines(b, <<l[1], l[2]>>, l[3])

C14_OnlyNewRows ==
    /\ (LaterRun /\ pc \in {"pass3a", "pass3b", "pass4", "clusters", "done"}) =>
          LET kept == KeptOf
          IN \A k \in PairKeys(kept) \cup DOMAIN pair_signal :
                Get0(pair_signal, k)
                  = Cardinality(Increments(done_buckets, kept, k[1], k[2], k[3]))
    /\ (LaterRun /\ pc = "pass3a") => user_item = EmptyMap
    /\ (LaterRun /\ pc \in {"pass4", "clusters", "done"}) =>
          \A key \in DOMAIN user_item :
              user_item[key] = KeptOccurrences(key[1], key[2])

C14_PurgeBeforeWrite == C14_PurgedFirst /\ C14_OnlyNewLines /\ C14_OnlyNewRows

\* a finished second run on other input, whose windows are not those of the
\* first run; both runs wrote bucket lines and store rows
C14_Witness ==
    /\ run = 2 /\ pc = "done" /\ prev # None
    /\ prev[1].events # events
    /\ DOMAIN prev[1].tmp.bucket_files # {}
    /\ DOMAIN bucket_files # {}
    /\ DOMAIN prev[1].tmp.bucket_files \cap DOMAIN bucket_files = {}
    /\ prev[1].tmp.pair_signal # EmptyMap
    /\ prev[1].tmp.user_item # EmptyMap
    /\ pair_signal # EmptyMap
    /\ user_item # EmptyMap

(***************************************************************************)
(* C15.  When a run has finished, every output file holds what that run    *)
(* computed: the edge table its edges, the cluster table its clusters, the *)
(* graph files its graphs G and B, the three reports its rows.  A file of  *)
(* an earlier run is nowhere left in place.                                *)
(***************************************************************************)
ThisRunOnly(file, content) == file = None \/ file = Some(content)

C15_AlwaysWritten ==
    pc = "done" =>
        /\ {<<r.user_a, r.user_b, r.signals, r.total_occurrences>> :
               r \in Range(out_edges)} = EdgesOfInput
        /\ out_clusters = Some(clusters)
        /\ out_top_edges = Some(TopEdgesSorted(top_edges))
        /\ out_time_windows = Some(TimeWindows(bucket_stats))

C15_GraphDerived ==
    pc = "done" =>
        /\ ThisRunOnly(out_graph, G)
        /\ ThisRunOnly(out_bip, B)
        /\ ThisRunOnly(out_top_clusters, TopClusters(G, B, clusters, hash_order))

C15_OutputsOfThisRun == C15_AlwaysWritten /\ C15_GraphDerived

(***************************************************************************)
(* C16.  A run whose keep-set is empty ends with every report written and  *)
(* holding no data row: the edge table, the cluster table, the top edges   *)
(* report, the top clusters report and the time window report.             *)
(***************************************************************************)
EmptyKeepSetRun == pc = "done" /\ kept_items = {}

C16_EdgeReportsEmpty ==
    EmptyKeepSetRun =>
        /\ out_edges = <<>>
        /\ out_clusters = Some(<<>>)
        /\ out_top_edges = Some(<<>>)

C16_TopClustersEmpty == EmptyKeepSetRun => out_top_clusters = Some(<<>>)

C16_TimeWindowsEmpty == EmptyKeepSetRun => out_time_windows = Some(<<>>)

C16_EmptyReports ==
    C16_EdgeReportsEmpty /\ C16_TopClustersEmpty /\ C16_TimeWindowsEmpty

(***************************************************************************)
(* C17.  A run whose input has more significant edges than                 *)
(* MAX_EDGES_FOR_GRAPH does not fail and goes on to its end, and its edge  *)
(* table and top edges selection cover every edge: the table has one row   *)
(* per edge of the input, every row was numbered and offered to the heap,  *)
(* and an edge that is not in the heap was offered and lost against        *)
(* entries that do not score less.                                         *)
(***************************************************************************)
AfterScan == pc \in {"clusters", "pass5", "t1", "t2", "t3", "done"}

OverCeiling == Cardinality(EdgesOfInput) > max_edges_for_graph

HeapRows == {top_edges[i][3] : i \in 1..Len(top_edges)}

\* the positions of the run from the scan on, in program order
Stages == <<"pass4", "clusters", "pass5", "t1", "t2", "t3", "done">>

StageOf(p) == CHOOSE i \in 1..Len(Stages) : Stages[i] = p

\* once the ceiling is passed the run is never in the failed state
C17_RunGoesOn ==
    edges_written > max_edges_for_graph => pc \in Range(Stages)

\* and every step either goes on with the scan or enters the next stage
C17_StepsForward ==
    edges_written > max_edges_for_graph =>
        /\ edges_written' >= edges_written
        /\ \/ pc = "pass4" /\ pc' = "pass4" /\ scan' # scan
           \/ StageOf(pc') = StageOf(pc) + 1

\* when the scan has ended
C17_TableCovers ==
    (Reduced /\ OverCeiling) =>
        /\ {<<r.user_a, r.user_b, r.signals, r.total_occurrences>> :
               r \in Range(out_edges)} = EdgesOfInput
        /\ Len(out_edges) = Cardinality(EdgesOfInput)
        /\ edges_written = Len(out_edges)

C17_SelectionCovers ==
    (Reduced /\ OverCeiling) =>
        /\ edge_seq = Len(out_edges)
        /\ HeapRows \subseteq Range(out_edges)
        /\ \A i \in 1..Len(top_edges) : top_edges[i][3] = out_edges[top_edges[i][2]]
        /\ \A r \in Range(out_edges) \ HeapRows :
              /\ Len(top_edges) = top_k
              /\ \A i \in 1..Len(top_edges) : top_edges[i][1] >= r.total_occurrences

\* the steps after the scan leave the table and the selection as they are,
\* and the report is the selection
C17_KeptToTheEnd ==
    AfterScan =>
        /\ out_edges' = out_edges
        /\ top_edges' = top_edges
        /\ pc' = "done" => out_top_edges' = Some(TopEdgesSorted(top_edges))

C17_NoEdgeDropped ==
    /\ [](C17_RunGoesOn /\ C17_TableCovers /\ C17_SelectionCovers)
    /\ [][C17_StepsForward /\ C17_KeptToTheEnd]_vars

\* a finished run of three edges of which the graph took two
C17_Witness ==
    /\ pc = "done"
    /\ OverCeiling
    /\ Len(out_edges) > max_edges_for_graph
    /\ Len(G) = max_edges_for_graph
    /\ out_top_edges = Some(TopEdgesSorted(top_edges))

(***************************************************************************)
(* C18.  A run that wrote more edges than MAX_EDGES_FOR_GRAPH skips what   *)
(* is derived from the graph: it writes no coordination graph file, the    *)
(* cluster table has no row, and the top clusters report has no row made   *)
(* from the part of the graph that was built before the ceiling.           *)
(***************************************************************************)
CeilingPassed == pc = "done" /\ edges_written > max_edges_for_graph

C18_NoGraphNoCluster ==
    CeilingPassed =>
        /\ out_graph = None
        /\ clusters = <<>>
        /\ out_clusters = Some(<<>>)

C18_NoTopClusterRow ==
    CeilingPassed => out_top_clusters \in {None, Some(<<>>)}

C18_GraphArtifactsSkipped == C18_NoGraphNoCluster /\ C18_NoTopClusterRow

(***************************************************************************)
(* C19.  During and after the scan the heap holds min(K, edge_seq)         *)
(* entries, K being its capacity, each one the entry of a written edge,    *)
(* and their scores are the K highest total_occurrences of the edges       *)
(* written so far: no edge outside the heap scores more than an entry of   *)
(* it.  A push on a full heap removes one of the K + 1 candidates, and the *)
(* one removed has the least score among them.                             *)
(***************************************************************************)
Min2(a, b) == IF a <= b THEN a ELSE b

HeapEntries(heap) == {heap[i] : i \in 1..Len(heap)}

EntryOf(i) == <<out_edges[i].total_occurrences, i, out_edges[i]>>

Scanning == pc \in {"pass4", "clusters"}

C19_Size == Scanning => Len(top_edges) = Min2(top_k, edge_seq)

C19_Highest ==
    Scanning =>
        /\ edge_seq = Len(out_edges)
        /\ Cardinality(HeapEntries(top_edges)) = Len(top_edges)
        /\ HeapEntries(top_edges) \subseteq {EntryOf(i) : i \in 1..Len(out_edges)}
        /\ \A i \in 1..Len(out_edges) :
              EntryOf(i) \notin HeapEntries(top_edges) =>
                  \A e \in HeapEntries(top_edges) : e[1] >= EntryOf(i)[1]

\* a step that emits an edge while the heap is full
C19_EvictsMinimum ==
    (pc = "pass4" /\ edge_seq' = edge_seq + 1 /\ Len(top_edges) = top_k) =>
        LET new == <<out_edges'[edge_seq'].total_occurrences, edge_seq',
                     out_edges'[edge_seq']>>
            candidates == HeapEntries(top_edges) \cup {new}
            removed == candidates \ HeapEntries(top_edges')
        IN /\ Cardinality(candidates) = top_k + 1
           /\ Cardinality(removed) = 1
           /\ \A r \in removed : \A e \in candidates : r[1] <= e[1]

C19_TopK == [](C19_Size /\ C19_Highest) /\ [][C19_EvictsMinimum]_vars

\* the heap of capacity two after three edges: the third edge scored more
\* than the least entry and took its place
C19_Witness ==
    /\ pc = "clusters"
    /\ top_k = 2
    /\ edge_seq = 3
    /\ EntryOf(3) \in HeapEntries(top_edges)
    /\ \E i \in 1..2 :
          /\ EntryOf(i) \notin HeapEntries(top_edges)
          /\ EntryOf(i)[1] < EntryOf(3)[1]
          /\ EntryOf(i)[1] < EntryOf(3 - i)[1]

(***************************************************************************)
(* C20.  The rows of the top edges report are in descending order of       *)
(* total_occurrences, and rows of equal total_occurrences are in the order *)
(* in which the scan emitted their edges.                                  *)
(***************************************************************************)
\* the position of a report row's edge in the edge table, which is written
\* in the order of the scan
EmittedAt(r) ==
    CHOOSE n \in 1..Len(out_edges) :
        out_edges[n].user_a = r.user_a /\ out_edges[n].user_b = r.user_b

C20_Descending ==
    pc = "done" =>
        \A i \in 1..Len(out_top_edges[1]), j \in 1..Len(out_top_edges[1]) :
            i < j => out_top_edges[1][i].total_occurrences
                        >= out_top_edges[1][j].total_occurrences

C20_TiesInEmissionOrder ==
    pc = "done" =>
        \A i \in 1..Len(out_top_edges[1]), j \in 1..Len(out_top_edges[1]) :
            (i < j /\ out_top_edges[1][i].total_occurrences
                        = out_top_edges[1][j].total_occurrences)
                => EmittedAt(out_top_edges[1][i]) < EmittedAt(out_top_edges[1][j])

C20_ReportOrder == C20_Descending /\ C20_TiesInEmissionOrder

(***************************************************************************)
(* C21.  In a finished run whose edges are within the ceiling the rows of  *)
(* the cluster table are the connected components of the graph of the      *)
(* edge table: two users are members of the same row if and only if a path *)
(* of edges joins them, every endpoint of an edge is a member of exactly   *)
(* one row, every row has at least two members, and its size is the number *)
(* of its members.                                                         *)
(***************************************************************************)
EdgePairs == {<<r.user_a, r.user_b>> : r \in Range(out_edges)}

EndPoints == {p[1] : p \in EdgePairs} \cup {p[2] : p \in EdgePairs}

RECURSIVE Paths(_)
\* the pairs of users joined by a path over the relation R
Paths(R) ==
    LET R2 == R \cup {<<x[1][1], x[2][2]>> : x \in {y \in R \X R : y[1][2] = y[2][1]}}
    IN IF R2 = R THEN R ELSE Paths(R2)

Joined == Paths(EdgePairs \cup {<<p[2], p[1]>> : p \in EdgePairs})

MembersOf(row) == Range(row.users_sample)

WithinCeiling == pc = "done" /\ edges_written <= max_edges_for_graph

C21_Components ==
    WithinCeiling =>
        LET rows == out_clusters[1]
            joined == Joined
        IN /\ \A u \in EndPoints :
                 Cardinality({i \in 1..Len(rows) : u \in MembersOf(rows[i])}) = 1
           /\ \A i \in 1..Len(rows) :
                 /\ MembersOf(rows[i]) \subseteq EndPoints
                 /\ Cardinality(MembersOf(rows[i])) >= 2
                 /\ rows[i].size = Cardinality(MembersOf(rows[i]))
                 /\ rows[i].size = Len(rows[i].users_sample)
           /\ \A a \in EndPoints, b \in EndPoints :
                 a # b =>
                    ((\E i \in 1..Len(rows) : {a, b} \subseteq MembersOf(rows[i]))
                        <=> <<a, b>> \in joined)

\* a pair next to a chain: two clusters, and in one of them two users whom
\* no edge joins
C21_Witness ==
    /\ WithinCeiling
    /\ Len(out_clusters[1]) = 2
    /\ \E i \in 1..2 :
          /\ out_clusters[1][i].size = 3
          /\ \E a \in MembersOf(out_clusters[1][i]), b \in MembersOf(out_clusters[1][i]) :
                a < b /\ <<a, b>> \notin EdgePairs

(***************************************************************************)
(* C22.  In every row of the cluster table the count listed for a signal   *)
(* kind is the number of edges between members of the cluster whose        *)
(* signals contain that kind, every such edge counted once.                *)
(***************************************************************************)
\* the edges of the edge table between members of the row that carry kind s
InternalEdges(row, s) ==
    {i \in 1..Len(out_edges) :
        /\ {out_edges[i].user_a, out_edges[i].user_b} \subseteq MembersOf(row)
        /\ s \in Range(out_edges[i].signals)}

C22_KindsListed ==
    WithinCeiling =>
        \A i \in 1..Len(out_clusters[1]) :
            LET row == out_clusters[1][i]
            IN {row.top_signals[j][1] : j \in 1..Len(row.top_signals)}
                  = {s \in Range(SignalOrder) : InternalEdges(row, s) # {}}

C22_CountedFromBothEnds ==
    WithinCeiling =>
        \A i \in 1..Len(out_clusters[1]) :
            LET row == out_clusters[1][i]
            IN \A j \in 1..Len(row.top_signals) :
                  row.top_signals[j][2]
                     = 2 * Cardinality(InternalEdges(row, row.top_signals[j][1]))

C22_CountedOnce ==
    WithinCeiling =>
        \A i \in 1..Len(out_clusters[1]) :
            LET row == out_clusters[1][i]
            IN \A j \in 1..Len(row.top_signals) :
                  row.top_signals[j][2]
                     = Cardinality(InternalEdges(row, row.top_signals[j][1]))

C22_InternalEdgeCounts == C22_KindsListed /\ C22_CountedOnce

(***************************************************************************)
(* C23.  In every row of the cluster table the kinds are listed by count   *)
(* descending, and kinds of equal count in the order in which the kinds    *)
(* are enumerated, whatever the order in which the members and the edges   *)
(* of the cluster were visited.                                            *)
(***************************************************************************)
\* the kinds in the order extract_items enumerates them (lines 50-69)
KindOrder ==
    <<"A_URL", "A_DOM", "B_TAG", "C_MENT", "D_RETWEET", "D_QUOTE", "E_CONV", "E_REPLY">>

KindRank(s) == CHOOSE i \in 1..Len(KindOrder) : KindOrder[i] = s

C23_MostFrequentFirst ==
    WithinCeiling =>
        \A i \in 1..Len(out_clusters[1]) :
            LET ts == out_clusters[1][i].top_signals
            IN \A j \in 1..Len(ts), k \in 1..Len(ts) : j < k => ts[j][2] >= ts[k][2]

C23_TiesInKindOrder ==
    WithinCeiling =>
        \A i \in 1..Len(out_clusters[1]) :
            LET ts == out_clusters[1][i].top_signals
            IN \A j \in 1..Len(ts), k \in 1..Len(ts) :
                  (j < k /\ ts[j][2] = ts[k][2]) => KindRank(ts[j][1]) < KindRank(ts[k][1])

C23_DominantKindsOrder == C23_MostFrequentFirst /\ C23_TiesInKindOrder

(***************************************************************************)
(* C24.  For every bucket of the time window report, top_item is an item   *)
(* of the bucket file with the most distinct users and top_signal is the   *)
(* signal kind with the most distinct users, the users of a kind being the *)
(* users of all the bucket's items of that kind; items above               *)
(* max_users_per_item take part in both.                                   *)
(***************************************************************************)
KindUsers(b, s) == UNION {UsersIn(b, it) : it \in {x \in ItemsIn(b) : x[1] = s}}

C24_TopItem ==
    \A b \in DOMAIN bucket_stats :
        IF ItemsIn(b) = {}
        THEN bucket_stats[b].top_item = None
        ELSE /\ bucket_stats[b].top_item # None
             /\ bucket_stats[b].top_item[1] \in ItemsIn(b)
             /\ \A it \in ItemsIn(b) :
                   Cardinality(UsersIn(b, bucket_stats[b].top_item[1]))
                      >= Cardinality(UsersIn(b, it))

C24_TopSignal ==
    \A b \in DOMAIN bucket_stats :
        IF ItemsIn(b) = {}
        THEN bucket_stats[b].top_signal = None
        ELSE /\ bucket_stats[b].top_signal # None
             /\ \A s \in {it[1] : it \in ItemsIn(b)} :
                   Cardinality(KindUsers(b, bucket_stats[b].top_signal[1]))
                      >= Cardinality(KindUsers(b, s))

C24_WindowLeaders == C24_TopItem /\ C24_TopSignal

(***************************************************************************)
(* C25.  A run that does not find its input file fails at once, before any *)
(* pass: its only step leads to the failed state, no pass is ever entered, *)
(* and the temp directory, the bucket files, the store and the output      *)
(* files are what they were when the run was started.                      *)
(***************************************************************************)
InputMissing == ~input_exists

C25_NoPass == InputMissing => pc \in {"start", "failed"}

C25_NothingTouched ==
    (InputMissing /\ pc = "failed") =>
        /\ item_counts = EmptyMap
        /\ kept_items = {}
        /\ done_buckets = {}
        /\ bucket_stats = EmptyMap
        /\ IF prev = None
           THEN /\ DOMAIN bucket_files = {}
                /\ pair_signal = EmptyMap
                /\ user_item = EmptyMap
                /\ out_edges = <<>>
                /\ \A f \in {out_clusters, out_graph, out_bip, out_top_clusters,
                             out_top_edges, out_time_windows} : f = None
           ELSE /\ TmpDir = prev[1].tmp
                /\ Artifacts = prev[1].artifacts

C25_FailsAtOnce ==
    (InputMissing /\ pc = "start") =>
        /\ pc' = "failed"
        /\ TmpDir' = TmpDir
        /\ Artifacts' = Artifacts

C25_MissingInput ==
    [](C25_NoPass /\ C25_NothingTouched) /\ [][C25_FailsAtOnce]_vars

\* a second run failed for want of its input in a directory where the first
\* run left bucket files, store rows and edges
C25_Witness ==
    /\ run = 2
    /\ pc = "failed"
    /\ InputMissing
    /\ DOMAIN bucket_files # {}
    /\ pair_signal # EmptyMap
    /\ out_edges # <<>>

(***************************************************************************)
(* C26.  When user_item holds more than MAX_BIP_EDGES rows the bipartite   *)
(* graph is built from exactly MAX_BIP_EDGES of them and no row left out   *)
(* has a greater cnt than a row taken; otherwise it is built from all      *)
(* rows.  Either way the run goes on to its end, and which users belong to *)
(* which cluster does not depend on the bipartite graph: pass 5 leaves the *)
(* cluster table as it is, and the top clusters report has the ids, sizes  *)
(* and users it would have with any other bipartite graph.                 *)
(***************************************************************************)
BipartiteBuilt == pc \in {"t1", "t2", "t3", "done"}

C26_RowsTaken ==
    BipartiteBuilt =>
        LET rows == UserItemRows
        IN IF Cardinality(rows) > MAX_BIP_EDGES
           THEN /\ B \subseteq rows
                /\ Cardinality(B) = MAX_BIP_EDGES
                /\ \A r \in B : \A q \in rows \ B : r[3] >= q[3]
           ELSE B = rows

\* the columns of a top clusters row that say who is in the cluster
Membership(row) ==
    [cluster_id |-> row.cluster_id, size |-> row.size, top_users |-> row.top_users]

C26_ClustersApart ==
    (pc = "done" /\ Cardinality(Nodes(G)) > 0) =>
        /\ out_clusters = Some(clusters)
        /\ LET without == TopClusters(G, {}, clusters, hash_order)
           IN /\ Len(out_top_clusters[1]) = Len(without)
              /\ \A i \in 1..Len(without) :
                    Membership(out_top_clusters[1][i]) = Membership(without[i])

C26_Pass5Step ==
    pc = "pass5" =>
        /\ pc' = "t1"
        /\ clusters' = clusters
        /\ out_clusters' = out_clusters
        /\ G' = G

C26_BipartiteCap ==
    [](C26_RowsTaken /\ C26_ClustersApart) /\ [][C26_Pass5Step]_vars

\* a finished run with clusters whose user_item rows exceed the cap, a row
\* of cnt 1 left out while a row of greater cnt was taken
C26_Witness ==
    /\ pc = "done"
    /\ Cardinality(UserItemRows) > MAX_BIP_EDGES
    /\ Cardinality(B) = MAX_BIP_EDGES
    /\ \E r \in B, q \in UserItemRows \ B : r[3] > q[3]
    /\ clusters # <<>>
    /\ out_top_clusters # None

(***************************************************************************)
(* C27.  The passes run one after the other in program order, without      *)
(* branch or return, and none reads what another is still producing: a     *)
(* bucket line is written only in pass 2, when the counts of all events    *)
(* are complete and the keep-set is fixed, and the scan of the store       *)
(* starts and runs only after every bucket file was merged into it.        *)
(***************************************************************************)
PassOrder ==
    <<"start", "pass1", "purge", "pass2", "pass3a", "pass3b", "pass4", "clusters",
      "pass5", "t1", "t2", "t3", "done">>

PassOf(p) == CHOOSE i \in 1..Len(PassOrder) : PassOrder[i] = p

\* one step stays in its pass or enters the next one
C27_Linear ==
    pc # "failed" =>
        \/ pc' = pc
        \/ pc' = "failed" /\ pc = "start"
        \/ pc' # "failed" /\ PassOf(pc') = PassOf(pc) + 1

\* a step that writes a bucket line
C27_CountThenBuckets ==
    (\E b \in DOMAIN bucket_files' :
        b \notin DOMAIN bucket_files \/ bucket_files'[b] # bucket_files[b]) =>
        /\ pc = "pass2"
        /\ \A it \in AllItems : Get0(item_counts, it) = CountOf(it)
        /\ DOMAIN item_counts \subseteq AllItems
        /\ kept_items = KeptOf
        /\ item_counts' = item_counts
        /\ kept_items' = kept_items

\* the keep-set and the counts stay as pass 1 left them
C27_KeepSetFixed ==
    pc \notin {"start", "pass1"} =>
        /\ item_counts' = item_counts
        /\ kept_items' = kept_items \/ pc = "failed"

C27_MergeThenScan ==
    pc \in {"pass3b", "pass4"} =>
        /\ done_buckets = DOMAIN bucket_files
        /\ \A k \in DOMAIN pair_signal :
              pair_signal[k] = SumOver([b \in DOMAIN bucket_files |-> LocalCount(b, k)],
                                       DOMAIN bucket_files)
        /\ pc = "pass4" => \A r \in scan : pair_signal[<<r[1], r[2], r[3]>>] = r[4]

C27_StoreAtRest ==
    pc \in {"pass3b", "pass4"} =>
        /\ pair_signal' = pair_signal
        /\ bucket_files' = bucket_files

C27_StrictOrder ==
    /\ []C27_MergeThenScan
    /\ [][C27_Linear /\ C27_CountThenBuckets /\ C27_KeepSetFixed /\ C27_StoreAtRest]_vars

\* the scan has fetched a row of a store merged from two bucket files, both
\* of which counted the pair of that row
C27_Witness ==
    /\ pc = "pass4"
    /\ Cardinality(done_buckets) >= 2
    /\ current # None
    /\ \E k \in DOMAIN pair_signal :
          /\ <<k[1], k[2]>> = current[1]
          /\ Cardinality({b \in DOMAIN bucket_files : LocalCount(b, k) > 0}) >= 2
    /\ kept_items # {}

(***************************************************************************)
(* C28.  The scan yields the store rows of a pair one after the other      *)
(* and reduces them together, and it decides every pair of the store, the  *)
(* last one included: the rows still to come belong to the current pair or *)
(* to later pairs, every row of the edge table carries the counts of all   *)
(* store rows of its pair, the edge table has at most one row per pair,    *)
(* and when the scan has ended no significant pair of the store is missing *)
(* from it.                                                                *)
(***************************************************************************)
PairOf(r) == <<r.user_a, r.user_b>>

StorePairs == {<<k[1], k[2]>> : k \in DOMAIN pair_signal}

PairBefore(p, q) == p[1] < q[1] \/ (p[1] = q[1] /\ p[2] < q[2])

C28_Contiguous ==
    (pc = "pass4" /\ current # None) =>
        /\ \A r \in scan : PairLeq(current[1], r)
        /\ \A i \in 1..Len(out_edges) : PairBefore(PairOf(out_edges[i]), current[1])
        /\ \A s \in DictKeys(sig_counts) :
              <<current[1][1], current[1][2], s>> \in DOMAIN pair_signal
        /\ \A k \in DOMAIN pair_signal :
              <<k[1], k[2]>> = current[1] =>
                 \/ <<k[1], k[2], k[3], pair_signal[k]>> \in scan
                 \/ DictGet0(sig_counts, k[3]) = pair_signal[k]

C28_ReducedTogether ==
    pc \in {"pass4", "clusters"} =>
        \A i \in 1..Len(out_edges) :
            LET e == out_edges[i]
            IN /\ \A k \in DOMAIN pair_signal :
                     <<k[1], k[2]>> = PairOf(e) =>
                        DictGet0(e.signal_counts, k[3]) = pair_signal[k]
               /\ \A s \in DictKeys(e.signal_counts) :
                     <<e.user_a, e.user_b, s>> \in DOMAIN pair_signal
               /\ \A j \in 1..Len(out_edges) : PairOf(out_edges[j]) = PairOf(e) => j = i

C28_EveryPairDecided ==
    Reduced =>
        {PairOf(out_edges[i]) : i \in 1..Len(out_edges)}
           = {p \in StorePairs : Significant(PairDict(p[1], p[2]), min_occ, MIN_KINDS)}

C28_StreamingReduction ==
    C28_Contiguous /\ C28_ReducedTogether /\ C28_EveryPairDecided

\* the scan has ended over a store of three pairs; the last pair, reduced
\* from two rows by the final flush, is an edge, and an earlier pair is none
C28_Witness ==
    /\ Reduced
    /\ Cardinality(StorePairs) >= 3
    /\ Len(out_edges) >= 1
    /\ Len(out_edges[Len(out_edges)].signal_counts) >= 2
    /\ \A p \in StorePairs : PairLeq(p, PairOf(out_edges[Len(out_edges)]))
    /\ \E p \in StorePairs : p \notin {PairOf(out_edges[i]) : i \in 1..Len(out_edges)}

(***************************************************************************)
(* C29.  For every bucket the num_coord_edges_created of its statistics is *)
(* the number of pair increments the bucket gave to the store, that is the *)
(* sum of the values of its local count map, and active_users is the       *)
(* number of distinct users with a line in the bucket file.  The record is *)
(* written once, when the bucket is aggregated, and not changed after.     *)
(***************************************************************************)
C29_StatsOfBucket ==
    pc \in {"pass3a", "pass3b", "pass4", "clusters", "pass5", "t1", "t2", "t3", "done"} =>
        /\ DOMAIN bucket_stats = done_buckets
        /\ \A b \in DOMAIN bucket_stats :
              /\ bucket_stats[b].num_coord_edges_created
                    = SumOver(bucket_counts[b], DOMAIN bucket_counts[b])
              /\ bucket_stats[b].active_users
                    = Cardinality({l[3] : l \in Range(bucket_files[b])})

C29_WrittenOnce ==
    /\ \A b \in DOMAIN bucket_stats :
          pc # "pass2" => (b \in DOMAIN bucket_stats' /\ bucket_stats'[b] = bucket_stats[b])
    /\ DOMAIN bucket_stats' # DOMAIN bucket_stats =>
          (pc = "pass3a" /\ Cardinality(DOMAIN bucket_stats' \ DOMAIN bucket_stats) = 1)
             \/ (pc = "pass2" /\ bucket_stats' = EmptyMap)

C29_BucketStats == []C29_StatsOfBucket /\ [][C29_WrittenOnce]_vars

\* a finished run of two buckets, one of them with two users who share two
\* items (two increments), the other with one user
C29_Witness ==
    /\ pc = "done"
    /\ Cardinality(DOMAIN bucket_stats) >= 2
    /\ \E b \in DOMAIN bucket_stats :
          /\ bucket_stats[b].num_coord_edges_created >= 2
          /\ bucket_stats[b].active_users >= 2
    /\ \E b \in DOMAIN bucket_stats :
          /\ bucket_stats[b].num_coord_edges_created = 0
          /\ bucket_stats[b].active_users = 1

(***************************************************************************)
(* C30.  In a finished run within the ceiling a cluster_id stands for the  *)
(* same connected component in the cluster table and in the top clusters   *)
(* report: both list the same ids, and for every id the same size, the     *)
(* same dominant kinds and the same users; and both are sorted by size     *)
(* descending.                                                             *)
(***************************************************************************)
RowOf(rows, id) == CHOOSE r \in Range(rows) : r.cluster_id = id

IdsOf(rows) == {rows[i].cluster_id : i \in 1..Len(rows)}

SortedBySize(rows) ==
    \A i \in 1..Len(rows), j \in 1..Len(rows) : i < j => rows[i].size >= rows[j].size

BothReports == WithinCeiling /\ Cardinality(Nodes(G)) > 0

C30_SameComponent ==
    BothReports =>
        LET ct == out_clusters[1]
            tc == out_top_clusters[1]
        IN /\ Len(ct) = Len(tc)
           /\ Cardinality(IdsOf(ct)) = Len(ct)
           /\ IdsOf(ct) = IdsOf(tc)
           /\ \A id \in IdsOf(ct) :
                 /\ RowOf(ct, id).size = RowOf(tc, id).size
                 /\ RowOf(ct, id).top_signals = RowOf(tc, id).top_signals
                 /\ Range(RowOf(ct, id).users_sample) = Range(RowOf(tc, id).top_users)

C30_BothSorted ==
    BothReports => SortedBySize(out_clusters[1]) /\ SortedBySize(out_top_clusters[1])

C30_SameIds == C30_SameComponent /\ C30_BothSorted

\* two clusters, the larger one enumerated second and listed first
C30_Witness ==
    /\ BothReports
    /\ Len(out_clusters[1]) = 2
    /\ out_clusters[1][1].cluster_id = 1
    /\ out_clusters[1][1].size > out_clusters[1][2].size
    /\ out_top_clusters[1][1].cluster_id = 1
    /\ out_clusters[1][1].top_signals # out_clusters[1][2].top_signals

====
